---- MODULE Spec2Model ----
(***************************************************************************)
(* A model of the vie editor core (nickbryan/redd):                        *)
(*   - the frame buffer and its diff        (vie_core/src/ui.rs)           *)
(*   - the double-buffered Viewport::draw   (vie_core/src/viewport.rs)     *)
(*   - the modal key parser Parsers::parse  (vie_core/src/command.rs)      *)
(*   - the event loop and the canvas        (vie_tui/src/lib.rs)           *)
(*   - Editor::run and main                 (editor.rs, vie_tui main.rs)   *)
(* The specifications share the module: SpecBuffer drives two frame        *)
(* buffers through write_line / reset / diff, SpecWrite drives one buffer  *)
(* and keeps its last operation, SpecWriteAt does so over a Rect placed    *)
(* anywhere, Spec drives a Viewport through draw calls whose Canvas        *)
(* operations and callback may fail, SpecCursor follows the cursor of      *)
(* each draw, SpecParsers feeds keys to the mode engine and keeps the      *)
(* keys fed from the start, SpecModes feeds it keys with no history,       *)
(* SpecGrammar, SpecNormal and SpecCount apply the command-line and the    *)
(* normal-mode grammar to texts over a small alphabet, SpecEvents and      *)
(* SpecEventLoop run a listener thread and its channel, SpecRun runs       *)
(* Editor::run, SpecMain runs main from start to process exit, SpecCanvas  *)
(* follows the Canvas operations of a Viewport up to its drop, and         *)
(* SpecRender records the cells each callback writes.                      *)
(***************************************************************************)
EXTENDS Integers, Sequences, FiniteSets, TLC

VARIABLES
    \* ---- frame buffer harness (SpecBuffer) ----
    front,              \* the buffer diff is called on ("previous")
    back,               \* the buffer passed to diff ("next")
    updates,            \* result of the last front.diff(back)
    diffed,             \* TRUE when updates is the diff of the present front/back
    bufOps,             \* number of buffer operations applied so far
    bufPanic,           \* TRUE once a write_line of the harness has panicked
    \* ---- one frame buffer and its last operation (SpecWrite) ----
    buffer,             \* the frame buffer write_line and reset are called on
    lastOp,             \* the last operation applied to it, with its arguments
    beforeOp,           \* the buffer as it was before that operation
    wrOps,              \* number of operations applied so far
    wrPanic,            \* TRUE once a write_line has panicked
    \* ---- Viewport (Spec) ----
    buffers,            \* Viewport.buffers: <<buffers[0], buffers[1]>>
    current_buffer_idx, \* Viewport.current_buffer_idx, 0 or 1
    cursor_position,    \* Frame.cursor_position of the running draw
    pc,                 \* next step of the running draw (an index of DrawSteps),
                        \* 0 between calls, -1 once a callback has panicked
    result,             \* outcome of the last finished draw: "none", "ok", "err", "panic"
    failedOp,           \* the step that made the last finished draw fail
    steps,              \* the steps the running / last draw performed, in order
    sent,               \* the cells handed to Canvas.draw by the running / last draw
    screen,             \* what the terminal shows: cell index -> [symbol, style]
    writes,             \* write_line calls made by the running callback
    draws,              \* number of draw calls started
    allOk,              \* TRUE while no draw call has failed
    startIdx,           \* current_buffer_idx when the running / last draw began
    startPrev,          \* buffers[1 - current_buffer_idx] when that draw began
    lastFrame,          \* buffer rendered by the callback of the previous successful draw
    thisFrame,          \* buffer rendered by the callback of the running / last draw
    \* ---- the cursor of a draw (SpecCursor) ----
    setCalls,           \* positions the running / last callback gave set_cursor_position
    positioned,         \* <<position>> the running / last draw gave Canvas.position_cursor
    lastPositioned,     \* positioned of the draw before
    \* ---- the input-polling thread and its channel (SpecEvents, SpecEventLoop) ----
    listener,           \* which loop runs: "CrosstermEventLoop" or "Events"
    pending,            \* events the platform has ready and the thread has not read
    produced,           \* every event the platform has produced, in order
    thread,             \* the polling thread: "poll", "read", "done" or "panicked"
    channel,            \* the events sent and not yet received
    rxAlive,            \* FALSE once the main loop has dropped the receiver
    delivered,          \* what successive read_event calls have returned
    tickCauses,         \* what the thread had met each time it sent Tick
    ticks,              \* number of polls that timed out
    \* ---- Editor::run (SpecRun) ----
    editor,             \* the Editor: should_quit, mode and command_line
    runPc,              \* where run is: "while", "read_event", "draw" or "returned"
    runResult,          \* what run returned: "none", "Ok", "ErrIo" or "ErrRender"
    reads,              \* number of read_event calls made
    passed,             \* number of keys passed to the mode engine
    runDraws,           \* number of Viewport::draw calls made
    lastDraw,           \* outcome of the last Viewport::draw: "none", "ok" or "err"
    quitAt,             \* reads, passed and runDraws when Command::Quit was handled
    \* ---- the Canvas over the life of a Viewport (SpecCanvas) ----
    captured,           \* the Canvas operations called since Viewport::new, in order
    cursorHidden,       \* TRUE while the terminal's cursor is hidden
    dropPc,             \* the Viewport: "alive", in drop at "clear" or "flush",
                        \* "dropped", or "panicked" in drop
    dropAt,             \* Len(captured) when drop began
    \* ---- the cells a callback writes (SpecRender) ----
    written,            \* indices of the cells the callback of the draw under way,
                        \* or last made, has written
    \* ---- main and the terminal (SpecMain) ----
    mainPc,             \* where main is, from "event_loop" to "exited"
    raw_mode,           \* TRUE while the terminal is in raw mode
    alternate_screen,   \* TRUE while the terminal shows the alternate screen
    mainResult,         \* the Result main matches on: "none", "Ok" or "Err"
    panicking,          \* TRUE while a panic unwinds
    exitStatus,         \* how the process ended: "running", "0", "1", "101", "abort"
    \* ---- mode engine (SpecParsers) ----
    parsers,            \* the Parsers value: mode and per-mode state
    command,            \* Option<Command> returned by the last Parsers::parse
    lastKey,            \* the key given to the last Parsers::parse
    lastMode,           \* the mode the engine was in when that key arrived
    lastRow,            \* the command-line text the engine held when that key arrived
    lastCol,            \* the column of the command-line cursor when that key arrived
    keys,               \* keys fed since the engine was last a fresh NormalParser,
                        \* while tracking
    tracking,           \* TRUE while the key history is kept and within MaxKeys
    \* ---- the grammars (SpecGrammar, SpecNormal, SpecCount) ----
    cmdline,            \* the text handed to command_for_input
    outcome,            \* the Option<Command> it returned
    applied             \* TRUE once outcome is the result for cmdline

bufVars == <<front, back, updates, diffed, bufOps, bufPanic>>
vpVars == <<buffers, current_buffer_idx, cursor_position, pc, result, failedOp,
            steps, sent, screen, writes, draws, allOk, startIdx, startPrev,
            lastFrame, thisFrame>>
psVars == <<parsers, command, lastKey, lastMode, lastRow, lastCol, keys, tracking>>
grVars == <<cmdline, outcome, applied>>
wrVars == <<buffer, lastOp, beforeOp, wrOps, wrPanic>>
curVars == <<setCalls, positioned, lastPositioned>>
evVars == <<listener, pending, produced, thread, channel, rxAlive, delivered,
            tickCauses, ticks>>
runVars == <<editor, runPc, runResult, reads, passed, runDraws, lastDraw, quitAt>>
tmVars == <<mainPc, raw_mode, alternate_screen, mainResult, panicking, exitStatus>>
dpVars == <<captured, cursorHidden, dropPc, dropAt>>
rnVars == <<written>>
vars == <<bufVars, vpVars, psVars, grVars, wrVars, curVars, evVars, runVars, tmVars,
          dpVars, rnVars>>

-----------------------------------------------------------------------------
(* Bounds of the model.                                                    *)

Width == 2          \* columns of the canvas
Height == 2         \* rows of the canvas
MaxText == 3        \* longest text handed to write_line, in grapheme clusters
MaxBufOps == 2      \* buffer operations per SpecBuffer behaviour
MaxDraws == 3       \* draw calls per Spec behaviour
MaxWrites == 1      \* write_line calls per render callback
MaxKeys == 3        \* keys remembered since the engine was last fresh
MaxRow == 2         \* longest command-line row the model lets Execute mode build
MaxCol == 3         \* rightmost column the model lets the command-line cursor reach
MaxInput == 4       \* longest text handed to the command-line grammar
MaxNormalInput == 3 \* longest text handed to the Normal-mode grammar
MaxDigits == 5      \* longest run of digits typed before a motion key
MaxSets == 2        \* set_cursor_position calls per render callback
MaxEvents == 3      \* events the platform produces per behaviour
MaxTicks == 2       \* polls that time out per behaviour
MaxReads == 5       \* read_event calls per run
MaxOffset == 1      \* largest column and row of the top-left corner of a Rect

-----------------------------------------------------------------------------
(* Grid primitives: ui.rs Position, Rect, Style.                           *)

Position(col, row) == [col |-> col, row |-> row]

PositionDefault == Position(0, 0)

RectNew(width, height) == [width |-> width, height |-> height, position |-> PositionDefault]

RectPositioned(width, height, col, row) ==
    [width |-> width, height |-> height, position |-> Position(col, row)]

RectArea(r) == r.width * r.height

RectLeft(r) == r.position.col
RectRight(r) == r.position.col + r.width
RectTop(r) == r.position.row
RectBottom(r) == r.position.row + r.height

RectContains(r, p) ==
    /\ p.col >= RectLeft(r)
    /\ p.col < RectRight(r)
    /\ p.row >= RectTop(r)
    /\ p.row < RectBottom(r)

StyleNew(fg, bg) == [foreground |-> fg, background |-> bg]

StyleDefault == StyleNew("Reset", "Reset")

\* The styles the callbacks of the model draw with: the default one and the
\* status bar's (a non-default foreground and background).
Styles == {StyleDefault, StyleNew("Rgb63", "Rgb239")}

\* Grapheme clusters a text may hold.
Graphemes == {"a"}

RECURSIVE SeqsUpTo(_, _)
SeqsUpTo(S, n) ==
    IF n = 0 THEN {<<>>}
    ELSE LET shorter == SeqsUpTo(S, n - 1)
         IN shorter \cup {Append(s, x) : s \in {t \in shorter : Len(t) = n - 1}, x \in S}

\* Texts handed to write_line: a text is its sequence of grapheme clusters.
Texts == SeqsUpTo(Graphemes, MaxText)

Min(a, b) == IF a < b THEN a ELSE b

-----------------------------------------------------------------------------
(* frame::Cell and frame::Buffer (ui.rs).                                  *)

CellNew(col, row, symbol, style) ==
    [position |-> Position(col, row), symbol |-> symbol, style |-> style]

\* A reset that gives the cell the default style as well.
CellResetWithStyle(cell) == [cell EXCEPT !.symbol = " ", !.style = StyleDefault]

CellReset(cell) == [cell EXCEPT !.symbol = " "]

\* Buffer::filled: rows outer, columns inner, positions counted from (0, 0).
BufferFilled(area, symbol) ==
    [area |-> area,
     cells |-> [i \in 1..RectArea(area) |->
                  CellNew((i - 1) % area.width, (i - 1) \div area.width, symbol, StyleDefault)]]

BufferEmpty(area) == BufferFilled(area, " ")

\* The loop of Buffer::diff over back_buffer.iter().zip(front_buffer.iter()).enumerate():
\* i is the 0-based index, the zip ends with the shorter of the two.
RECURSIVE DiffLoop(_, _, _, _)
DiffLoop(front_buffer, back_buffer, i, acc) ==
    IF i >= Min(Len(back_buffer), Len(front_buffer)) THEN acc
    ELSE DiffLoop(front_buffer, back_buffer, i + 1,
                  IF back_buffer[i + 1] /= front_buffer[i + 1]
                  THEN Append(acc, back_buffer[i + 1])
                  ELSE acc)

\* A diff that compares nothing: every cell of the other buffer.
BufferDiffAll(self, other) == other.cells

\* A diff that collects the changed cells of self instead of those of other.
BufferDiffOfSelf(self, other) == DiffLoop(other.cells, self.cells, 0, <<>>)

BufferDiff(self, other) == DiffLoop(self.cells, other.cells, 0, <<>>)

\* index_of that clamps the row into the area
BufferIndexOfClamped(self, position) ==
    [ok |-> TRUE,
     index |-> Min(position.row, self.area.height - 1) * self.area.width + position.col]

\* Buffer::index_of: ok = FALSE stands for Err(OutOfBoundsError).
BufferIndexOf(self, position) ==
    IF RectContains(self.area, position)
    THEN [ok |-> TRUE,
          index |-> (position.row - self.area.position.row) * self.area.width
                        + (position.col - self.area.position.col)]
    ELSE [ok |-> FALSE, index |-> 0]

RECURSIVE ResetLoop(_, _, _)
ResetLoop(cells, from, to) ==
    IF from >= to THEN cells
    ELSE ResetLoop([cells EXCEPT ![from + 1] = CellReset(cells[from + 1])], from + 1, to)

BufferReset(self) == [self EXCEPT !.cells = ResetLoop(self.cells, 0, Len(self.cells))]

\* First loop of write_line: one cell per grapheme cluster from cell `index` on.
\* Indexing self.cells past its end panics, after the cells before were written.
RECURSIVE WriteLoop(_, _, _, _, _)
WriteLoop(cells, index, string, style, i) ==
    IF i >= Len(string) THEN [cells |-> cells, panic |-> FALSE]
    ELSE IF index + i >= Len(cells) THEN [cells |-> cells, panic |-> TRUE]
    ELSE WriteLoop([cells EXCEPT ![index + i + 1] =
                        CellNew(cells[index + i + 1].position.col,
                                cells[index + i + 1].position.row,
                                string[i + 1], style)],
                   index, string, style, i + 1)

\* Buffer::write_line.  The result is the buffer and whether the call panicked
\* (the unwrap of index_of, or an index past the end of cells).
BufferWriteLine(self, line_number, string, style) ==
    LET found == BufferIndexOf(self, Position(0, line_number))
        index == found.index
    IN  IF ~found.ok THEN [buffer |-> self, panic |-> TRUE]
        ELSE LET w == WriteLoop(self.cells, index, string, style, 0)
             IN  IF w.panic THEN [buffer |-> [self EXCEPT !.cells = w.cells], panic |-> TRUE]
                 ELSE [buffer |-> [self EXCEPT !.cells =
                                     ResetLoop(w.cells, index + Len(string),
                                               index + self.area.width)],
                       panic |-> FALSE]

-----------------------------------------------------------------------------
(* The frame buffer harness: two buffers of one area, as the tests of      *)
(* ui.rs build them (empty or filled, then written), and diff.             *)

Area == RectNew(Width, Height)

NoCells == <<>>

\* Rows a caller may name: every row of the area and the first one below it.
LineNumbers == 0..Height

BufInit ==
    /\ front \in {BufferEmpty(Area), BufferFilled(Area, "a")}
    /\ back \in {BufferEmpty(Area), BufferFilled(Area, "a")}
    /\ updates = NoCells
    /\ diffed = FALSE
    /\ bufOps = 0
    /\ bufPanic = FALSE

\* The harness at rest, in the specifications that do not drive it.
BufIdle ==
    /\ front = BufferEmpty(Area)
    /\ back = BufferEmpty(Area)
    /\ updates = NoCells
    /\ diffed = FALSE
    /\ bufOps = 0
    /\ bufPanic = FALSE

\* front.write_line(line_number, string, style)
FrontWriteLine(line_number, string, style) ==
    LET w == BufferWriteLine(front, line_number, string, style)
    IN  /\ ~bufPanic
        /\ bufOps < MaxBufOps
        /\ front' = w.buffer
        /\ bufPanic' = w.panic
        /\ bufOps' = bufOps + 1
        /\ diffed' = FALSE
        /\ UNCHANGED <<back, updates>>

\* back.write_line(line_number, string, style)
BackWriteLine(line_number, string, style) ==
    LET w == BufferWriteLine(back, line_number, string, style)
    IN  /\ ~bufPanic
        /\ bufOps < MaxBufOps
        /\ back' = w.buffer
        /\ bufPanic' = w.panic
        /\ bufOps' = bufOps + 1
        /\ diffed' = FALSE
        /\ UNCHANGED <<front, updates>>

\* back.reset()
BackReset ==
    /\ ~bufPanic
    /\ bufOps < MaxBufOps
    /\ back' = BufferReset(back)
    /\ bufOps' = bufOps + 1
    /\ diffed' = FALSE
    /\ UNCHANGED <<front, updates, bufPanic>>

\* updates = front.diff(&back)
TakeDiff ==
    /\ ~bufPanic
    /\ ~diffed
    /\ updates' = BufferDiff(front, back)
    /\ diffed' = TRUE
    /\ UNCHANGED <<front, back, bufOps, bufPanic>>

BufNext ==
    \/ \E n \in LineNumbers, t \in Texts, st \in Styles : FrontWriteLine(n, t, st)
    \/ \E n \in LineNumbers, t \in Texts, st \in Styles : BackWriteLine(n, t, st)
    \/ BackReset
    \/ TakeDiff

-----------------------------------------------------------------------------
(* One frame buffer driven through write_line and reset, with the last     *)
(* operation and the buffer before it kept for comparison.                 *)

\* A buffer operation: its name and its arguments.
Op(name, line_number, string, style) ==
    [name |-> name, line_number |-> line_number, string |-> string, style |-> style]

NoOp == Op("none", 0, <<>>, StyleDefault)

WrInit ==
    /\ buffer \in {BufferEmpty(Area), BufferFilled(Area, "a")}
    /\ lastOp = NoOp
    /\ beforeOp = buffer
    /\ wrOps = 0
    /\ wrPanic = FALSE

\* The buffer at rest, in the specifications that do not drive it.
WrIdle ==
    /\ buffer = BufferEmpty(Area)
    /\ lastOp = NoOp
    /\ beforeOp = BufferEmpty(Area)
    /\ wrOps = 0
    /\ wrPanic = FALSE

\* The areas a buffer may be built over: Rect::new and Rect::positioned.
Areas ==
    {RectPositioned(Width, Height, col, row) : col \in 0..MaxOffset, row \in 0..MaxOffset}

\* A buffer built by Buffer::empty or Buffer::filled over any of the areas.
WaInit ==
    /\ buffer \in {BufferEmpty(a) : a \in Areas} \cup {BufferFilled(a, "a") : a \in Areas}
    /\ lastOp = NoOp
    /\ beforeOp = buffer
    /\ wrOps = 0
    /\ wrPanic = FALSE

\* buffer.write_line(line_number, string, style)
WriteLine(line_number, string, style) ==
    LET w == BufferWriteLine(buffer, line_number, string, style)
    IN  /\ ~wrPanic
        /\ wrOps < MaxBufOps
        /\ buffer' = w.buffer
        /\ wrPanic' = w.panic
        /\ lastOp' = Op("write_line", line_number, string, style)
        /\ beforeOp' = buffer
        /\ wrOps' = wrOps + 1

\* buffer.reset()
Reset ==
    /\ ~wrPanic
    /\ wrOps < MaxBufOps
    /\ buffer' = BufferReset(buffer)
    /\ lastOp' = Op("reset", 0, <<>>, StyleDefault)
    /\ beforeOp' = buffer
    /\ wrOps' = wrOps + 1
    /\ UNCHANGED wrPanic

WrNext ==
    \/ \E n \in LineNumbers, t \in Texts, st \in Styles : WriteLine(n, t, st)
    \/ Reset

\* C30: the cell at linear index i has the position that index_of maps to i:
\* (p.row - area.row) * area.width + (p.col - area.col) = i.
C30_PositionMatchesIndex ==
    \A i \in 1..Len(buffer.cells) :
        LET p == buffer.cells[i].position
            area == buffer.area
        IN  /\ p.row >= area.position.row
            /\ p.col >= area.position.col
            /\ (p.row - area.position.row) * area.width + (p.col - area.position.col) = i - 1
            /\ BufferIndexOf(buffer, p) = [ok |-> TRUE, index |-> i - 1]

-----------------------------------------------------------------------------
(* Viewport (viewport.rs): two buffers, the index of the current one, and  *)
(* the Canvas it draws to.  The Canvas is the terminal: every operation of *)
(* it may fail, and the cells given to Canvas.draw change the screen.      *)

\* A draw that flushes the Canvas before it swaps the buffers.
DrawStepsFlushFirst ==
    <<"hide_cursor", "callback", "draw", "position_cursor", "show_cursor",
      "flush", "swap_buffers">>

\* A draw that swaps the buffers as soon as the changes are drawn.
DrawStepsSwapEarly ==
    <<"hide_cursor", "callback", "draw", "swap_buffers", "position_cursor",
      "show_cursor", "flush">>

\* A draw that shows the cursor again before it calls the callback.
DrawStepsShowEarly ==
    <<"hide_cursor", "show_cursor", "callback", "draw", "position_cursor",
      "swap_buffers", "flush">>

\* The statements of Viewport::draw in source order.
DrawSteps ==
    <<"hide_cursor", "callback", "draw", "position_cursor", "show_cursor",
      "swap_buffers", "flush">>

AtStep(name) == pc \in 1..Len(DrawSteps) /\ DrawSteps[pc] = name

\* The screen of the terminal behind the Canvas: blank, default style.
BlankScreen == [i \in 1..RectArea(Area) |-> [symbol |-> " ", style |-> StyleDefault]]

\* The terminal prints the first k of the cells, each at its own position.
RECURSIVE CanvasPrint(_, _, _)
CanvasPrint(scr, cells, k) ==
    IF k = 0 THEN scr
    ELSE LET c == cells[k]
         IN  [CanvasPrint(scr, cells, k - 1) EXCEPT
                ![c.position.row * Area.width + c.position.col + 1] =
                    [symbol |-> c.symbol, style |-> c.style]]

\* Positions a callback passes to Frame::set_cursor_position.
CursorPositions == {PositionDefault, Position(Width - 1, Height - 1)}

\* Viewport::new
VpInit ==
    /\ buffers = <<BufferEmpty(Area), BufferEmpty(Area)>>
    /\ current_buffer_idx = 0
    /\ cursor_position = PositionDefault
    /\ pc = 0
    /\ result = "none"
    /\ failedOp = "none"
    /\ steps = <<>>
    /\ sent = NoCells
    /\ screen = BlankScreen
    /\ writes = 0
    /\ draws = 0
    /\ allOk = TRUE
    /\ startIdx = 0
    /\ startPrev = BufferEmpty(Area)
    /\ lastFrame = BufferEmpty(Area)
    /\ thisFrame = BufferEmpty(Area)

\* Frame::new: the cursor position of a new Frame.
FrameNew == PositionDefault

\* A set_cursor_position that drops the assignment.
FrameSetCursorPositionDropped(self_cursor_position, position) == self_cursor_position

\* Frame::set_cursor_position: the cursor position the Frame holds afterwards.
FrameSetCursorPosition(self_cursor_position, position) == position

\* The statement just performed succeeded: go on to the next one, or return
\* Ok(()), which drops the Frame.  After hide_cursor the Frame is built.
Advance ==
    /\ pc' = IF pc = Len(DrawSteps) THEN 0 ELSE pc + 1
    /\ result' = IF pc = Len(DrawSteps) THEN "ok" ELSE result
    /\ cursor_position' = IF pc = Len(DrawSteps) THEN PositionDefault
                          ELSE IF DrawSteps[pc] = "hide_cursor" THEN FrameNew
                          ELSE cursor_position
    /\ writes' = IF pc = Len(DrawSteps) THEN 0 ELSE writes
    /\ UNCHANGED <<failedOp, allOk>>

\* The statement just performed failed: `?` returns the error from draw, which
\* drops the Frame.
Fail(op) ==
    /\ pc' = 0
    /\ result' = "err"
    /\ failedOp' = op
    /\ allOk' = FALSE
    /\ cursor_position' = PositionDefault
    /\ writes' = 0

\* A caller calls viewport.draw(f).
DrawCall ==
    /\ pc = 0
    /\ draws < MaxDraws
    /\ pc' = 1
    /\ draws' = draws + 1
    /\ result' = "none"
    /\ failedOp' = "none"
    /\ steps' = <<>>
    /\ sent' = NoCells
    /\ startIdx' = current_buffer_idx
    /\ startPrev' = buffers[(1 - current_buffer_idx) + 1]
    /\ lastFrame' = IF result = "ok" THEN thisFrame ELSE lastFrame
    /\ UNCHANGED <<buffers, current_buffer_idx, cursor_position, screen, writes,
                   allOk, thisFrame>>

\* self.canvas.hide_cursor()?; Frame::new follows, with the default cursor position
HideCursor(ok) ==
    /\ AtStep("hide_cursor")
    /\ steps' = Append(steps, "hide_cursor")
    /\ IF ok THEN Advance ELSE Fail("hide_cursor")
    /\ UNCHANGED <<buffers, current_buffer_idx, sent, screen, draws, startIdx,
                   startPrev, lastFrame, thisFrame>>

\* Inside f: frame.render(component), where the component writes one line.
CallbackWriteLine(line_number, string, style) ==
    LET w == BufferWriteLine(buffers[current_buffer_idx + 1], line_number, string, style)
    IN  /\ AtStep("callback")
        /\ writes < MaxWrites
        /\ writes' = writes + 1
        /\ buffers' = [buffers EXCEPT ![current_buffer_idx + 1] = w.buffer]
        /\ IF w.panic
           THEN pc' = -1 /\ result' = "panic" /\ failedOp' = "callback" /\ allOk' = FALSE
           ELSE UNCHANGED <<pc, result, failedOp, allOk>>
        /\ UNCHANGED <<current_buffer_idx, cursor_position, steps, sent, screen, draws,
                       startIdx, startPrev, lastFrame, thisFrame>>

\* Inside f: frame.set_cursor_position(position)
CallbackSetCursor(position) ==
    /\ AtStep("callback")
    /\ cursor_position' = FrameSetCursorPosition(cursor_position, position)
    /\ UNCHANGED <<buffers, current_buffer_idx, pc, result, failedOp, steps, sent,
                   screen, writes, draws, allOk, startIdx, startPrev, lastFrame,
                   thisFrame>>

\* f(&mut frame)? : the callback returns Ok(()) or an error.
CallbackReturn(ok) ==
    /\ AtStep("callback")
    /\ steps' = IF ok THEN Append(steps, "callback") ELSE steps
    /\ thisFrame' = IF ok THEN buffers[current_buffer_idx + 1] ELSE thisFrame
    /\ IF ok THEN Advance ELSE Fail("callback")
    /\ UNCHANGED <<buffers, current_buffer_idx, sent, screen,
                   draws, startIdx, startPrev, lastFrame>>

\* previous_buffer.diff(current_buffer), then self.canvas.draw(changes)?
\* A failing Canvas.draw has printed some of the cells before it failed.
CanvasDraw(ok) ==
    LET previous_buffer == buffers[(1 - current_buffer_idx) + 1]
        current_buffer == buffers[current_buffer_idx + 1]
        changes == BufferDiff(previous_buffer, current_buffer)
    IN  /\ AtStep("draw")
        /\ steps' = Append(steps, "draw")
        /\ sent' = changes
        /\ IF ok
           THEN screen' = CanvasPrint(screen, changes, Len(changes))
           ELSE \E k \in 0..Len(changes) : screen' = CanvasPrint(screen, changes, k)
        /\ IF ok THEN Advance ELSE Fail("draw")
        /\ UNCHANGED <<buffers, current_buffer_idx, draws,
                       startIdx, startPrev, lastFrame, thisFrame>>

\* self.canvas.position_cursor(next_cursor_pos.row, next_cursor_pos.col)?
PositionCursor(ok) ==
    /\ AtStep("position_cursor")
    /\ steps' = Append(steps, "position_cursor")
    /\ IF ok THEN Advance ELSE Fail("position_cursor")
    /\ UNCHANGED <<buffers, current_buffer_idx, sent, screen,
                   draws, startIdx, startPrev, lastFrame, thisFrame>>

\* self.canvas.show_cursor()?
ShowCursor(ok) ==
    /\ AtStep("show_cursor")
    /\ steps' = Append(steps, "show_cursor")
    /\ IF ok THEN Advance ELSE Fail("show_cursor")
    /\ UNCHANGED <<buffers, current_buffer_idx, sent, screen,
                   draws, startIdx, startPrev, lastFrame, thisFrame>>

\* A swap that resets the buffer just rendered instead of the previous one.
SwapBuffersResetCurrent(bufs, idx) ==
    [buffers |-> [bufs EXCEPT ![idx + 1] = BufferReset(bufs[idx + 1])],
     current_buffer_idx |-> 1 - idx]

\* A swap that resets the previous buffer and leaves the index where it was.
SwapBuffersKeepIndex(bufs, idx) ==
    [buffers |-> [bufs EXCEPT ![(1 - idx) + 1] = BufferReset(bufs[(1 - idx) + 1])],
     current_buffer_idx |-> idx]

\* Viewport::swap_buffers: the two values it leaves in buffers and current_buffer_idx.
SwapBuffers(bufs, idx) ==
    [buffers |-> [bufs EXCEPT ![(1 - idx) + 1] = BufferReset(bufs[(1 - idx) + 1])],
     current_buffer_idx |-> 1 - idx]

\* self.swap_buffers()
Swap ==
    /\ AtStep("swap_buffers")
    /\ steps' = Append(steps, "swap_buffers")
    /\ buffers' = SwapBuffers(buffers, current_buffer_idx).buffers
    /\ current_buffer_idx' = SwapBuffers(buffers, current_buffer_idx).current_buffer_idx
    /\ Advance
    /\ UNCHANGED <<sent, screen, draws, startIdx, startPrev,
                   lastFrame, thisFrame>>

\* self.canvas.flush()
Flush(ok) ==
    /\ AtStep("flush")
    /\ steps' = Append(steps, "flush")
    /\ IF ok THEN Advance ELSE Fail("flush")
    /\ UNCHANGED <<buffers, current_buffer_idx, sent, screen,
                   draws, startIdx, startPrev, lastFrame, thisFrame>>

VpNext ==
    \/ DrawCall
    \/ \E ok \in BOOLEAN : HideCursor(ok)
    \/ \E n \in LineNumbers, t \in Texts, st \in Styles : CallbackWriteLine(n, t, st)
    \/ \E p \in CursorPositions : CallbackSetCursor(p)
    \/ \E ok \in BOOLEAN : CallbackReturn(ok)
    \/ \E ok \in BOOLEAN : CanvasDraw(ok)
    \/ \E ok \in BOOLEAN : PositionCursor(ok)
    \/ \E ok \in BOOLEAN : ShowCursor(ok)
    \/ Swap
    \/ \E ok \in BOOLEAN : Flush(ok)

-----------------------------------------------------------------------------
(* The draw cycle with the cursor positions of each draw recorded: what    *)
(* the callback gave set_cursor_position and what the draw gave            *)
(* Canvas.position_cursor.  The callbacks here only place the cursor.      *)

CurInit ==
    /\ setCalls = <<>>
    /\ positioned = <<>>
    /\ lastPositioned = <<>>

\* The record at rest, in the specifications that do not keep it.
CurIdle == CurInit

CurNext ==
    \/ /\ DrawCall
       /\ setCalls' = <<>>
       /\ positioned' = <<>>
       /\ lastPositioned' = positioned
    \/ \E ok \in BOOLEAN : HideCursor(ok) /\ UNCHANGED curVars
    \/ \E p \in CursorPositions :
          /\ CallbackSetCursor(p)
          /\ Len(setCalls) < MaxSets
          /\ setCalls' = Append(setCalls, p)
          /\ UNCHANGED <<positioned, lastPositioned>>
    \/ \E ok \in BOOLEAN : CallbackReturn(ok) /\ UNCHANGED curVars
    \/ \E ok \in BOOLEAN : CanvasDraw(ok) /\ UNCHANGED curVars
    \/ \E ok \in BOOLEAN :
          /\ PositionCursor(ok)
          /\ positioned' = <<cursor_position>>
          /\ UNCHANGED <<setCalls, lastPositioned>>
    \/ \E ok \in BOOLEAN : ShowCursor(ok) /\ UNCHANGED curVars
    \/ Swap /\ UNCHANGED curVars
    \/ \E ok \in BOOLEAN : Flush(ok) /\ UNCHANGED curVars

-----------------------------------------------------------------------------
(* The Canvas over the life of one Viewport: the operations the draws and  *)
(* the drop call on it, in order, and whether the cursor is hidden.  A     *)
(* Canvas operation that fails leaves the cursor as it was.                *)

DpInit ==
    /\ captured = <<>>
    /\ cursorHidden = FALSE
    /\ dropPc = "alive"
    /\ dropAt = 0

\* The record at rest, in the specifications that do not keep it.
DpIdle == DpInit

\* A drop that flushes without clearing.
DropClearSkipped(ok) ==
    /\ dropPc = "alive"
    /\ pc = 0
    /\ dropAt' = Len(captured)
    /\ dropPc' = IF ok THEN "flush" ELSE "panicked"
    /\ UNCHANGED <<captured, cursorHidden>>

\* Drop for Viewport, first statement: self.canvas.clear().unwrap()
DropClear(ok) ==
    /\ dropPc = "alive"
    /\ pc = 0
    /\ dropAt' = Len(captured)
    /\ captured' = Append(captured, "clear")
    /\ dropPc' = IF ok THEN "flush" ELSE "panicked"
    /\ UNCHANGED cursorHidden

\* Drop for Viewport, second statement: self.canvas.flush().unwrap()
DropFlush(ok) ==
    /\ dropPc = "flush"
    /\ captured' = Append(captured, "flush")
    /\ dropPc' = IF ok THEN "dropped" ELSE "panicked"
    /\ UNCHANGED <<cursorHidden, dropAt>>

\* A Canvas operation of a draw is called on the terminal.
Called(op) ==
    /\ dropPc = "alive"
    /\ captured' = Append(captured, op)
    /\ UNCHANGED <<dropPc, dropAt>>

DpNext ==
    \/ dropPc = "alive" /\ DrawCall /\ UNCHANGED dpVars
    \/ \E ok \in BOOLEAN :
          /\ HideCursor(ok)
          /\ Called("hide_cursor")
          /\ cursorHidden' = IF ok THEN TRUE ELSE cursorHidden
    \/ \E ok \in BOOLEAN : CallbackReturn(ok) /\ UNCHANGED dpVars
    \/ \E ok \in BOOLEAN : CanvasDraw(ok) /\ Called("draw") /\ UNCHANGED cursorHidden
    \/ \E ok \in BOOLEAN :
          PositionCursor(ok) /\ Called("position_cursor") /\ UNCHANGED cursorHidden
    \/ \E ok \in BOOLEAN :
          /\ ShowCursor(ok)
          /\ Called("show_cursor")
          /\ cursorHidden' = IF ok THEN FALSE ELSE cursorHidden
    \/ Swap /\ UNCHANGED dpVars
    \/ \E ok \in BOOLEAN : Flush(ok) /\ Called("flush") /\ UNCHANGED cursorHidden
    \/ \E ok \in BOOLEAN : DropClear(ok) /\ UNCHANGED vpVars
    \/ \E ok \in BOOLEAN : DropFlush(ok) /\ UNCHANGED vpVars

-----------------------------------------------------------------------------
(* The draw cycle with the cells each callback writes recorded.            *)

RnInit == written = {}

\* The record at rest, in the specifications that do not keep it.
RnIdle == RnInit

\* The 1-based indices of the cells write_line(line_number, string, ..)
\* assigns or resets in self: from the first cell of the row to the end of
\* the row, or of the text when it is longer, within cells.
WriteLineCells(self, line_number, string) ==
    LET found == BufferIndexOf(self, Position(0, line_number))
        last == found.index + (IF Len(string) > self.area.width
                               THEN Len(string) ELSE self.area.width)
    IN  IF ~found.ok THEN {}
        ELSE {i \in 1..Len(self.cells) : i > found.index /\ i <= last}

RnNext ==
    \/ DrawCall /\ written' = {}
    \/ \E ok \in BOOLEAN : HideCursor(ok) /\ UNCHANGED rnVars
    \/ \E n \in LineNumbers, t \in Texts, st \in Styles :
          /\ CallbackWriteLine(n, t, st)
          /\ written' = written \cup WriteLineCells(buffers[current_buffer_idx + 1], n, t)
    \/ \E p \in CursorPositions : CallbackSetCursor(p) /\ UNCHANGED rnVars
    \/ \E ok \in BOOLEAN : CallbackReturn(ok) /\ UNCHANGED rnVars
    \/ \E ok \in BOOLEAN : CanvasDraw(ok) /\ UNCHANGED rnVars
    \/ \E ok \in BOOLEAN : PositionCursor(ok) /\ UNCHANGED rnVars
    \/ \E ok \in BOOLEAN : ShowCursor(ok) /\ UNCHANGED rnVars
    \/ Swap /\ UNCHANGED rnVars
    \/ \E ok \in BOOLEAN : Flush(ok) /\ UNCHANGED rnVars

-----------------------------------------------------------------------------
(* Keys and commands (backend.rs Key, command.rs Command).  A string is    *)
(* the sequence of its characters.                                         *)

Key(kind) == [kind |-> kind, ch |-> ""]
KeyChar(ch) == [kind |-> "Char", ch |-> ch]
KeyCtrl(ch) == [kind |-> "Ctrl", ch |-> ch]

\* Characters the model types.
Chars == {":", "q", "w", " ", "x", "i", "h", "j", "k", "l", "0", "1", "2"}

Keys ==
    {Key(k) : k \in {"Enter", "Tab", "Backspace", "Esc", "Left", "Right", "Up", "Down",
                     "Insert", "Delete", "Home", "End", "PageUp", "PageDown", "Unknown"}}
        \cup {KeyChar(c) : c \in Chars} \cup {KeyCtrl("c")}

Cmd(name) == [name |-> name, count |-> 0, mode |-> "", ch |-> "", text |-> <<>>]
None == Cmd("None")
EnterMode(mode) == [Cmd("EnterMode") EXCEPT !.mode = mode]
InsertChar(ch) == [Cmd("InsertChar") EXCEPT !.ch = ch]
MoveCursor(name, n) == [Cmd(name) EXCEPT !.count = n]
SaveAs(name) == [Cmd("SaveAs") EXCEPT !.text = name]

-----------------------------------------------------------------------------
(* Row (the text of the command line): its graphemes and their count.      *)

RowDefault == [string |-> <<>>, len |-> 0]

Take(str, n) == SubSeq(str, 1, Min(n, Len(str)))
Skip(str, n) == SubSeq(str, Min(n, Len(str)) + 1, Len(str))

RowInsert(row, at, ch) ==
    IF at >= row.len
    THEN [string |-> Append(row.string, ch), len |-> Len(row.string) + 1]
    ELSE [string |-> Take(row.string, at) \o <<ch>> \o Skip(row.string, at),
          len |-> Len(row.string) + 1]

RowDelete(row, at) ==
    IF at >= row.len
    THEN [string |-> row.string, len |-> Len(row.string)]
    ELSE [string |-> Take(row.string, at) \o Skip(row.string, at + 1),
          len |-> Len(row.string) - 1]

-----------------------------------------------------------------------------
(* execute_mode: the nom grammar of the command line.  A parser result is  *)
(* [ok, rest, out]: whether it matched, the input left, and its output.    *)

PFail(input) == [ok |-> FALSE, rest |-> input, out |-> None]
POk(rest, out) == [ok |-> TRUE, rest |-> rest, out |-> out]

\* nom char(c)
PChar(c, input) ==
    IF Len(input) >= 1 /\ input[1] = c THEN POk(Tail(input), None) ELSE PFail(input)

\* value(Command::Quit, all_consuming(char('q')))
ExecuteQuit(input) ==
    LET r == PChar("q", input)
    IN  IF r.ok /\ r.rest = <<>> THEN POk(r.rest, Cmd("Quit")) ELSE PFail(input)

\* save without all_consuming: char('w') and whatever follows
ExecuteSavePrefix(input) ==
    LET r == PChar("w", input)
    IN  IF r.ok THEN POk(r.rest, Cmd("Save")) ELSE PFail(input)

\* value(Command::Save, all_consuming(char('w')))
ExecuteSave(input) ==
    LET r == PChar("w", input)
    IN  IF r.ok /\ r.rest = <<>> THEN POk(r.rest, Cmd("Save")) ELSE PFail(input)

\* separated_pair(char('w'), char(' '), many1(anychar)): many1(anychar) takes all
\* that is left and fails on nothing.
ExecuteSaveAs(input) ==
    LET w == PChar("w", input)
        sp == PChar(" ", w.rest)
    IN  IF w.ok /\ sp.ok /\ Len(sp.rest) >= 1 THEN POk(<<>>, SaveAs(sp.rest))
        ELSE PFail(input)

\* alt((quit, save, save_as))
ExecuteAlt(input) ==
    IF ExecuteQuit(input).ok THEN ExecuteQuit(input)
    ELSE IF ExecuteSave(input).ok THEN ExecuteSave(input)
    ELSE ExecuteSaveAs(input)

\* execute_mode::command_for_input: all_consuming(pair(char(':'), alt(...)))
ExecuteCommandForInput(input) ==
    LET colon == PChar(":", input)
        cmd == ExecuteAlt(colon.rest)
    IN  IF colon.ok /\ cmd.ok /\ cmd.rest = <<>> THEN cmd.out ELSE None

-----------------------------------------------------------------------------
(* normal_mode: the nom grammar of Normal mode input.                      *)

Digits == {"0", "1", "2", "3", "4", "5", "6", "7", "8", "9"}
NonZeroDigits == Digits \ {"0"}

DigitValue(d) ==
    CASE d = "0" -> 0 [] d = "1" -> 1 [] d = "2" -> 2 [] d = "3" -> 3 [] d = "4" -> 4
      [] d = "5" -> 5 [] d = "6" -> 6 [] d = "7" -> 7 [] d = "8" -> 8 [] d = "9" -> 9

\* usize::MAX.  The model takes the narrowest usize a Rust target has, 16 bits,
\* so that a short run of digits exceeds it.
UsizeMax == 65535

\* The result of a call that did not return: a panic unwinds through the parsers.
Panicked == Cmd("Panic")

\* str::parse::<usize> of a run of digits, digit by digit with checked_mul and
\* checked_add: ok = FALSE stands for Err(PosOverflow).
RECURSIVE ParseUsize(_)
ParseUsize(digits) ==
    IF digits = <<>> THEN [ok |-> TRUE, value |-> 0]
    ELSE LET init == ParseUsize(SubSeq(digits, 1, Len(digits) - 1))
             d == DigitValue(digits[Len(digits)])
         IN  IF ~init.ok \/ init.value > (UsizeMax - d) \div 10
             THEN [ok |-> FALSE, value |-> 0]
             ELSE [ok |-> TRUE, value |-> init.value * 10 + d]

\* digit0: the length of the longest run of digits the input starts with
RECURSIVE Digit0(_)
Digit0(input) ==
    IF Len(input) >= 1 /\ input[1] \in Digits THEN 1 + Digit0(Tail(input)) ELSE 0

\* A multiplier that takes any run of digits, a leading 0 included.
NormalMultiplierAnyDigit(input) ==
    IF Len(input) >= 1 /\ input[1] \in Digits
    THEN LET n == Digit0(input)
         IN  POk(Skip(input, n), [None EXCEPT !.text = Take(input, n)])
    ELSE PFail(input)

\* recognize(pair(non_zero_digit, digit0)): out.text is the recognised run
NormalMultiplier(input) ==
    IF Len(input) >= 1 /\ input[1] \in NonZeroDigits
    THEN LET n == 1 + Digit0(Tail(input))
         IN  POk(Skip(input, n), [None EXCEPT !.text = Take(input, n)])
    ELSE PFail(input)

\* alt((char('h'), char('j'), char('k'), char('l')))
NormalMovementKey(input) ==
    IF Len(input) >= 1 /\ input[1] \in {"h", "j", "k", "l"}
    THEN POk(Tail(input), [None EXCEPT !.ch = input[1]])
    ELSE PFail(input)

MoveFor(c, n) ==
    CASE c = "h" -> MoveCursor("MoveCursorLeft", n)
      [] c = "j" -> MoveCursor("MoveCursorDown", n)
      [] c = "k" -> MoveCursor("MoveCursorUp", n)
      [] c = "l" -> MoveCursor("MoveCursorRight", n)

NormalSingleMoveAction(input) ==
    LET k == NormalMovementKey(input)
    IN  IF k.ok THEN POk(k.rest, MoveFor(k.out.ch, 1)) ELSE PFail(input)

\* multi_move_action: the closure of map runs as soon as the pair has matched,
\* and its unwrap of the parsed multiplier panics on Err.
NormalMultiMoveAction(input) ==
    LET m == NormalMultiplier(input)
        k == NormalMovementKey(m.rest)
        n == ParseUsize(m.out.text)
    IN  IF m.ok /\ k.ok
        THEN POk(k.rest, IF n.ok THEN MoveFor(k.out.ch, n.value) ELSE Panicked)
        ELSE PFail(input)

\* alt((single_move_action, multi_move_action))
NormalMovementAction(input) ==
    IF NormalSingleMoveAction(input).ok THEN NormalSingleMoveAction(input)
    ELSE NormalMultiMoveAction(input)

\* command_mode, insert_mode
NormalCommandMode(input) ==
    IF PChar(":", input).ok THEN POk(Tail(input), EnterMode("Execute")) ELSE PFail(input)

NormalInsertMode(input) ==
    IF PChar("i", input).ok THEN POk(Tail(input), EnterMode("Insert")) ELSE PFail(input)

\* normal_mode::command_for_input:
\* all_consuming(alt((command_mode, insert_mode, movement_action)))
NormalCommandForInput(input) ==
    LET r == IF NormalCommandMode(input).ok THEN NormalCommandMode(input)
             ELSE IF NormalInsertMode(input).ok THEN NormalInsertMode(input)
             ELSE NormalMovementAction(input)
    IN  IF r.ok /\ r.out = Panicked THEN Panicked
        ELSE IF r.ok /\ r.rest = <<>> THEN r.out ELSE None

-----------------------------------------------------------------------------
(* The command-line grammar applied to texts over a small alphabet.        *)

GrammarChars == {":", "q", "w", " ", "x"}

GrammarInputs == SeqsUpTo(GrammarChars, MaxInput)

GrInit ==
    /\ cmdline \in GrammarInputs
    /\ outcome = None
    /\ applied = FALSE

\* The grammar at rest, in the specifications that do not drive it.
GrIdle ==
    /\ cmdline = <<>>
    /\ outcome = None
    /\ applied = FALSE

\* outcome = execute_mode::command_for_input(&cmdline)
CommandForInput ==
    /\ ~applied
    /\ outcome' = ExecuteCommandForInput(cmdline)
    /\ applied' = TRUE
    /\ UNCHANGED cmdline

GrNext == CommandForInput

-----------------------------------------------------------------------------
(* The Normal-mode grammar applied to texts over a small alphabet, and to  *)
(* runs of digits followed by a motion key.                                *)

NormalChars == {":", "i", "0", "1", "2", "h", "j", "k", "l", "x"}

NormalInputs == SeqsUpTo(NormalChars, MaxNormalInput)

MotionChars == {"h", "j", "k", "l"}

\* Runs of up to MaxDigits digits, a motion key after each.
CountInputs ==
    {run \o <<c>> : run \in SeqsUpTo({"0", "1", "6", "9"}, MaxDigits), c \in MotionChars}

NmInit ==
    /\ cmdline \in NormalInputs
    /\ outcome = None
    /\ applied = FALSE

CtInit ==
    /\ cmdline \in CountInputs
    /\ outcome = None
    /\ applied = FALSE

\* outcome = normal_mode::command_for_input(&cmdline)
NormalCommandForInputCall ==
    /\ ~applied
    /\ outcome' = NormalCommandForInput(cmdline)
    /\ applied' = TRUE
    /\ UNCHANGED cmdline

NmNext == NormalCommandForInputCall

-----------------------------------------------------------------------------
(* The input-polling thread (vie_tui CrosstermEventLoop::listen_for_events *)
(* and the older Events::listen), the mpsc channel it sends on, and the    *)
(* main loop's read_event.                                                 *)

\* crossterm::event::Event: a key event with its code and modifiers, a mouse
\* event or a resize.
KeyEvent(code, ch, modifiers) ==
    [type |-> "Key", code |-> code, ch |-> ch, modifiers |-> modifiers]

PlatformEvents ==
    {KeyEvent("Char", "a", "NONE"), KeyEvent("Char", "a", "SHIFT"),
     [type |-> "Mouse", code |-> "", ch |-> "", modifiers |-> ""],
     [type |-> "Resize", code |-> "", ch |-> "", modifiers |-> ""]}

\* impl From<crossterm::event::KeyEvent> for Key
KeyFrom(event) ==
    IF event.modifiers = "NONE" /\ event.code = "Char" THEN KeyChar(event.ch)
    ELSE IF event.modifiers = "CONTROL" /\ event.code = "Char" THEN KeyCtrl(event.ch)
    ELSE IF event.modifiers = "NONE"
            /\ event.code \in {"Enter", "Tab", "Backspace", "Esc", "Left", "Right", "Down",
                               "Up", "Insert", "Delete", "Home", "End", "PageUp", "PageDown"}
    THEN Key(event.code)
    ELSE Key("Unknown")

\* backend.rs Event
EventInput(key) == [event |-> "Input", key |-> key]
EventTick == [event |-> "Tick", key |-> Key("Unknown")]
EventError == [event |-> "Error", key |-> Key("Unknown")]
\* read_event's Err: recv failed, the sender is gone
RecvErr == [event |-> "RecvErr", key |-> Key("Unknown")]

\* A channel that hands out the newest event first.
ChannelSendFront(queue, event) == <<event>> \o queue

\* mpsc::Sender::send: the channel is a FIFO queue and never full.
ChannelSend(queue, event) == Append(queue, event)

EvInitFor(which) ==
    /\ listener \in which
    /\ pending = <<>>
    /\ produced = <<>>
    /\ thread = "poll"
    /\ channel = <<>>
    /\ rxAlive = TRUE
    /\ delivered = <<>>
    /\ tickCauses = {}
    /\ ticks = 0

\* CrosstermEventLoop::new and Events::listen: the thread is spawned.
EvInit == EvInitFor({"CrosstermEventLoop", "Events"})

\* CrosstermEventLoop::new only.
ElInit == EvInitFor({"CrosstermEventLoop"})

\* The thread at rest, in the specifications that do not drive it.
EvIdle == ElInit

\* tx.send(event).unwrap(): the send fails, and the unwrap panics, once the
\* receiver is dropped.
Send(event, next) ==
    IF rxAlive
    THEN channel' = ChannelSend(channel, event) /\ thread' = next
    ELSE channel' = channel /\ thread' = "panicked"

\* The platform makes an event ready.
Produce(event) ==
    /\ Len(produced) < MaxEvents
    /\ produced' = Append(produced, event)
    /\ pending' = Append(pending, event)
    /\ UNCHANGED <<listener, thread, channel, rxAlive, delivered, tickCauses, ticks>>

\* poll(tick_rate) returns Ok(true): an event is ready.
PollReady ==
    /\ thread = "poll"
    /\ pending /= <<>>
    /\ thread' = "read"
    /\ UNCHANGED <<listener, pending, produced, channel, rxAlive, delivered, tickCauses,
                   ticks>>

\* poll(tick_rate) returns Ok(false): no event became ready within tick_rate.
\* CrosstermEventLoop sends Tick; Events falls into `_ => {}`.
PollTimeout ==
    /\ thread = "poll"
    /\ pending = <<>>
    /\ ticks < MaxTicks
    /\ ticks' = ticks + 1
    /\ IF listener = "CrosstermEventLoop"
       THEN /\ Send(EventTick, "poll")
            /\ tickCauses' = tickCauses \cup {"timeout"}
       ELSE UNCHANGED <<channel, thread, tickCauses>>
    /\ UNCHANGED <<listener, pending, produced, rxAlive, delivered>>

\* A poll error after which the loop goes on polling.
PollErrorKeepsPolling ==
    /\ thread = "poll"
    /\ Send(EventError, "poll")
    /\ UNCHANGED <<listener, pending, produced, rxAlive, delivered, tickCauses, ticks>>

\* poll(tick_rate) returns Err: Error is sent and the loop breaks.
PollError ==
    /\ thread = "poll"
    /\ Send(EventError, "done")
    /\ UNCHANGED <<listener, pending, produced, rxAlive, delivered, tickCauses, ticks>>

\* read() returns the event that was ready.  A key is sent as Input; for a
\* mouse or resize event CrosstermEventLoop sends nothing and Events sends Tick.
ReadReady ==
    LET event == Head(pending)
    IN  /\ thread = "read"
        /\ pending' = Tail(pending)
        /\ IF event.type = "Key"
           THEN Send(EventInput(KeyFrom(event)), "poll") /\ UNCHANGED tickCauses
           ELSE IF listener = "CrosstermEventLoop"
           THEN thread' = "poll" /\ UNCHANGED <<channel, tickCauses>>
           ELSE /\ Send(EventTick, "poll")
                /\ tickCauses' = tickCauses \cup {event.type}
        /\ UNCHANGED <<listener, produced, rxAlive, delivered, ticks>>

\* read() returns Err: Error is sent and the loop breaks.
ReadError ==
    /\ thread = "read"
    /\ Send(EventError, "done")
    /\ UNCHANGED <<listener, pending, produced, rxAlive, delivered, tickCauses, ticks>>

\* read_event: rx.recv() returns the oldest event of the channel, blocks while
\* the channel is empty and the thread lives, and fails once the channel is
\* empty and the sender is gone.
ReadEvent ==
    /\ rxAlive
    /\ IF channel /= <<>>
       THEN /\ delivered' = Append(delivered, Head(channel))
            /\ channel' = Tail(channel)
       ELSE /\ thread \in {"done", "panicked"}
            /\ (delivered = <<>> \/ delivered[Len(delivered)] /= RecvErr)
            /\ delivered' = Append(delivered, RecvErr)
            /\ UNCHANGED channel
    /\ UNCHANGED <<listener, pending, produced, thread, rxAlive, tickCauses, ticks>>

\* The main loop ends and drops the event loop, the receiver with it.
DropReceiver ==
    /\ rxAlive
    /\ rxAlive' = FALSE
    /\ channel' = <<>>
    /\ UNCHANGED <<listener, pending, produced, thread, delivered, tickCauses, ticks>>

EvNext ==
    \/ \E event \in PlatformEvents : Produce(event)
    \/ PollReady
    \/ PollTimeout
    \/ PollError
    \/ ReadReady
    \/ ReadError
    \/ ReadEvent
    \/ DropReceiver

-----------------------------------------------------------------------------
(* The parsers.  Each parse yields [state, command]: the parser after the  *)
(* key and the Option<Command> it returns.                                 *)

Parser(mode, input_buffer, row, cursor) ==
    [mode |-> mode, input_buffer |-> input_buffer, row |-> row, cursor_position |-> cursor]

\* A NormalParser that still holds a typed digit.
NormalParserStale == Parser("Normal", <<"2">>, RowDefault, PositionDefault)

\* Parsers::default, and the parsers Parsers::parse builds on EnterMode
NormalParserNew == Parser("Normal", <<>>, RowDefault, PositionDefault)
InsertParserNew == Parser("Insert", <<>>, RowDefault, PositionDefault)
ExecuteParserNew == Parser("Execute", <<>>, RowDefault, PositionDefault)

Parsed(state, cmd) == [state |-> state, command |-> cmd]

\* ExecuteParser::execute_command
ExecuteExecuteCommand(self, cmd) ==
    LET col == self.cursor_position.col
        SetCol(c) == [self EXCEPT !.cursor_position.col = c]
    IN  CASE cmd.name = "InsertChar" ->
                Parsed([self EXCEPT !.row = RowInsert(self.row, col, cmd.ch),
                                    !.cursor_position.col = col + 1], None)
          [] cmd.name = "MoveCursorLeft" ->
                Parsed(IF col > 1 THEN SetCol(IF col >= cmd.count THEN col - cmd.count ELSE 0)
                       ELSE self, None)
          [] cmd.name = "MoveCursorRight" ->
                Parsed(IF col /= self.row.len THEN SetCol(col + cmd.count) ELSE self, None)
          [] cmd.name = "MoveCursorLineStart" -> Parsed(SetCol(1), None)
          [] cmd.name = "MoveCursorLineEnd" -> Parsed(SetCol(self.row.len), None)
          [] cmd.name = "DeleteCharForward" ->
                LET row == RowDelete(self.row, col)
                IN  Parsed([self EXCEPT !.row = row],
                           IF row.len = 1 THEN EnterMode("Normal") ELSE None)
          [] cmd.name = "DeleteCharBackward" ->
                LET c == IF col >= 1 THEN col - 1 ELSE 0
                    row == RowDelete(self.row, c)
                IN  Parsed([self EXCEPT !.row = row, !.cursor_position.col = c],
                           IF row.len = 1 THEN EnterMode("Normal") ELSE None)
          [] OTHER -> Parsed(self, None)

\* ExecuteParser::parse
ExecuteParse(self, key) ==
    IF key.kind = "Enter" THEN Parsed(self, ExecuteCommandForInput(self.row.string))
    ELSE LET cmd ==
                CASE key.kind = "Char" -> InsertChar(key.ch)
                  [] key.kind = "Left" -> MoveCursor("MoveCursorLeft", 1)
                  [] key.kind = "Right" -> MoveCursor("MoveCursorRight", 1)
                  [] key.kind = "Backspace" -> Cmd("DeleteCharBackward")
                  [] key.kind = "Delete" -> Cmd("DeleteCharForward")
                  [] key.kind = "Home" -> Cmd("MoveCursorLineStart")
                  [] key.kind = "End" -> Cmd("MoveCursorLineEnd")
                  [] key.kind = "Esc" -> EnterMode("Normal")
                  [] OTHER -> None
         IN  IF cmd = None THEN Parsed(self, None) ELSE ExecuteExecuteCommand(self, cmd)

\* An InsertParser for which Enter moves down instead of breaking the line.
InsertParseNoLineBreak(self, key) ==
    Parsed(self,
           CASE key.kind = "Enter" -> MoveCursor("MoveCursorDown", 1)
             [] key.kind = "Char" -> InsertChar(key.ch)
             [] key.kind = "Esc" -> EnterMode("Normal")
             [] OTHER -> None)

\* InsertParser::parse
InsertParse(self, key) ==
    Parsed(self,
           CASE key.kind = "Up" -> MoveCursor("MoveCursorUp", 1)
             [] key.kind = "Down" -> MoveCursor("MoveCursorDown", 1)
             [] key.kind = "Left" -> MoveCursor("MoveCursorLeft", 1)
             [] key.kind = "Right" -> MoveCursor("MoveCursorRight", 1)
             [] key.kind = "Home" -> Cmd("MoveCursorLineStart")
             [] key.kind = "End" -> Cmd("MoveCursorLineEnd")
             [] key.kind = "PageUp" -> Cmd("MoveCursorPageUp")
             [] key.kind = "PageDown" -> Cmd("MoveCursorPageDown")
             [] key.kind = "Delete" -> Cmd("DeleteCharForward")
             [] key.kind = "Backspace" -> Cmd("DeleteCharBackward")
             [] key.kind = "Enter" -> Cmd("InsertLineBreak")
             [] key.kind = "Char" -> InsertChar(key.ch)
             [] key.kind = "Esc" -> EnterMode("Normal")
             [] OTHER -> None)

\* A NormalParser whose direct key table also binds the arrow keys.
NormalParseArrows(self, key) ==
    LET direct ==
            CASE key.kind = "Up" -> MoveCursor("MoveCursorUp", 1)
              [] key.kind = "Down" -> MoveCursor("MoveCursorDown", 1)
              [] key.kind = "Left" -> MoveCursor("MoveCursorLeft", 1)
              [] key.kind = "Right" -> MoveCursor("MoveCursorRight", 1)
              [] key.kind = "Home" -> Cmd("MoveCursorLineStart")
              [] key.kind = "End" -> Cmd("MoveCursorLineEnd")
              [] key.kind = "PageUp" -> Cmd("MoveCursorPageUp")
              [] key.kind = "PageDown" -> Cmd("MoveCursorPageDown")
              [] key.kind = "Insert" -> EnterMode("Insert")
              [] key.kind = "Enter" -> MoveCursor("MoveCursorDown", 1)
              [] OTHER -> None
    IN  IF direct /= None
        THEN Parsed(self, direct)
        ELSE Parsed([self EXCEPT !.input_buffer = <<>>],
                    NormalCommandForInput(IF key.kind = "Char" THEN <<key.ch>> ELSE <<>>))

\* A parse that clears input_buffer only when a command matched.
NormalParseKeepUnmatched(self, key) ==
    LET input_buffer ==
            IF key.kind = "Char" THEN Append(self.input_buffer, key.ch)
            ELSE IF key.kind = "Esc" THEN <<>>
            ELSE self.input_buffer
        direct ==
            CASE key.kind = "Home" -> Cmd("MoveCursorLineStart")
              [] key.kind = "End" -> Cmd("MoveCursorLineEnd")
              [] key.kind = "PageUp" -> Cmd("MoveCursorPageUp")
              [] key.kind = "PageDown" -> Cmd("MoveCursorPageDown")
              [] key.kind = "Insert" -> EnterMode("Insert")
              [] key.kind = "Enter" -> MoveCursor("MoveCursorDown", 1)
              [] OTHER -> None
        found == NormalCommandForInput(input_buffer)
    IN  IF direct /= None
        THEN Parsed([self EXCEPT !.input_buffer = input_buffer], direct)
        ELSE Parsed([self EXCEPT !.input_buffer = IF found = None THEN input_buffer ELSE <<>>],
                    found)

\* NormalParser::parse
NormalParse(self, key) ==
    LET input_buffer ==
            IF key.kind = "Char" THEN Append(self.input_buffer, key.ch)
            ELSE IF key.kind = "Esc" THEN <<>>
            ELSE self.input_buffer
        direct ==
            CASE key.kind = "Home" -> Cmd("MoveCursorLineStart")
              [] key.kind = "End" -> Cmd("MoveCursorLineEnd")
              [] key.kind = "PageUp" -> Cmd("MoveCursorPageUp")
              [] key.kind = "PageDown" -> Cmd("MoveCursorPageDown")
              [] key.kind = "Insert" -> EnterMode("Insert")
              [] key.kind = "Enter" -> MoveCursor("MoveCursorDown", 1)
              [] OTHER -> None
    IN  IF direct /= None
        THEN Parsed([self EXCEPT !.input_buffer = input_buffer], direct)
        ELSE Parsed([self EXCEPT !.input_buffer = <<>>], NormalCommandForInput(input_buffer))

\* Parsers::parse without the replacement of the parser on EnterMode.
ParsersParseKeep(self, key) ==
    CASE self.mode = "Execute" -> ExecuteParse(self, key)
      [] self.mode = "Insert" -> InsertParse(self, key)
      [] self.mode = "Normal" -> NormalParse(self, key)

\* Parsers::parse
ParsersParse(self, key) ==
    LET p == CASE self.mode = "Execute" -> ExecuteParse(self, key)
               [] self.mode = "Insert" -> InsertParse(self, key)
               [] self.mode = "Normal" -> NormalParse(self, key)
    IN  IF p.command.name = "EnterMode"
        THEN Parsed(CASE p.command.mode = "Execute" -> ExecuteParserNew
                      [] p.command.mode = "Insert" -> InsertParserNew
                      [] p.command.mode = "Normal" -> NormalParserNew,
                    p.command)
        ELSE p

\* Parsers::default()
PsInit ==
    /\ parsers = NormalParserNew
    /\ command = None
    /\ lastKey = Key("Unknown")
    /\ lastMode = "Normal"
    /\ lastRow = <<>>
    /\ lastCol = 0
    /\ keys = <<>>
    /\ tracking = TRUE

\* The mode engine at rest, in the specifications that do not drive it.
PsIdle == PsInit

\* The editor hands the next key to the engine: command = parsers.parse(key).
\* keys restarts when the key leaves a fresh NormalParser behind.
Parse(key) ==
    LET p == ParsersParse(parsers, key)
        fresh == p.command = EnterMode("Normal")
    IN  /\ ~(parsers.mode = "Execute" /\ key.kind = "Char" /\ parsers.row.len >= MaxRow)
        /\ ~(parsers.mode = "Execute" /\ key.kind = "Right"
                /\ parsers.cursor_position.col >= MaxCol)
        /\ parsers' = p.state
        /\ command' = p.command
        /\ lastKey' = key
        /\ lastMode' = parsers.mode
        /\ lastRow' = parsers.row.string
        /\ lastCol' = parsers.cursor_position.col
        /\ keys' = IF fresh \/ ~tracking \/ Len(keys) >= MaxKeys THEN <<>>
                   ELSE Append(keys, key)
        /\ tracking' = (tracking /\ (fresh \/ Len(keys) < MaxKeys))

PsNext == \E key \in Keys : Parse(key)

\* Parsers::default() with no key history kept.
PsInitNoHistory ==
    /\ parsers = NormalParserNew
    /\ command = None
    /\ lastKey = Key("Unknown")
    /\ lastMode = "Normal"
    /\ lastRow = <<>>
    /\ lastCol = 0
    /\ keys = <<>>
    /\ tracking = FALSE

\* The keys of the mode transitions: every named key, Ctrl-c and a few characters.
ModeChars == {":", "i", "j", "1", "q", "x"}

ModeKeys == {k \in Keys : k.kind = "Char" => k.ch \in ModeChars}

ModesNext == \E key \in ModeKeys : Parse(key)

-----------------------------------------------------------------------------
(* Editor::run (editor.rs): the main loop, handle_command and the command  *)
(* line.  The mode engine of this Editor (Mode::handle, Mode::parse) and   *)
(* the event loop are outside it: each answers with any of its results.    *)

\* Row::from(":")
RowPrompt == [string |-> <<":">>, len |-> 1]

\* CommandLine::reset; the command line is held as a row and a cursor.
CommandLineReset == Parser("Execute", <<>>, RowPrompt, Position(RowPrompt.len, 0))

ParseCommandLineInput(text) == [Cmd("ParseCommandLineInput") EXCEPT !.text = text]

\* CommandLine::execute_command: EndCommandLineInput hands out the text and
\* resets; the other arms are those of ExecuteParser::execute_command.
CommandLineExecuteCommand(self, cmd) ==
    IF cmd.name = "EndCommandLineInput"
    THEN Parsed(CommandLineReset, ParseCommandLineInput(self.row.string))
    ELSE ExecuteExecuteCommand(self, cmd)

\* Editor::new
EditorNew == [should_quit |-> FALSE, mode |-> "Normal", command_line |-> CommandLineReset]

\* A handle_command that does nothing on Quit.
HandleCommandQuitIgnored(self, cmd, parsed) == self

\* Editor::handle_command.  parsed is what mode.parse answers for the text of
\* the command line, should it be asked.
RECURSIVE HandleCommand(_, _, _)
HandleCommand(self, cmd, parsed) ==
    IF cmd.name = "Quit" THEN [self EXCEPT !.should_quit = TRUE]
    ELSE IF cmd.name = "EnterMode" THEN [self EXCEPT !.mode = cmd.mode]
    ELSE IF self.mode /= "Execute" THEN self
    ELSE LET r == CommandLineExecuteCommand(self.command_line, cmd)
             after == [self EXCEPT !.command_line = r.state]
         IN  IF r.command = None THEN after
             ELSE IF r.command.name = "ParseCommandLineInput"
             THEN IF parsed = None THEN [after EXCEPT !.mode = "Normal"]
                  ELSE HandleCommand([after EXCEPT !.mode = "Normal"], parsed, None)
             ELSE HandleCommand(after, r.command, None)

\* What Mode::handle may answer for a key, and Mode::parse for a text.
HandledCommands ==
    {None, Cmd("Quit"), Cmd("Save"), EnterMode("Execute"), EnterMode("Normal"),
     Cmd("EndCommandLineInput"), InsertChar("q"), Cmd("DeleteCharBackward"),
     MoveCursor("MoveCursorLeft", 1)}

ParsedCommands == {None, Cmd("Quit"), Cmd("Save")}

NoQuit == [handled |-> FALSE, via |-> "", reads |-> 0, passed |-> 0, draws |-> 0]

\* How handle_command(cmd) comes to handle Command::Quit: "key" when cmd is
\* Quit, "command_line" when the text of the command line parses to Quit, ""
\* when it does not.
QuitVia(self, cmd, parsed) ==
    IF cmd.name = "Quit" THEN "key"
    ELSE IF /\ cmd.name \notin {"None", "EnterMode"}
            /\ self.mode = "Execute"
            /\ CommandLineExecuteCommand(self.command_line, cmd).command.name
                    = "ParseCommandLineInput"
            /\ parsed.name = "Quit"
    THEN "command_line"
    ELSE ""

RunInit ==
    /\ editor = EditorNew
    /\ runPc = "while"
    /\ runResult = "none"
    /\ reads = 0
    /\ passed = 0
    /\ runDraws = 0
    /\ lastDraw = "none"
    /\ quitAt = NoQuit

\* The Editor at rest, in the specifications that do not run it.
RunIdle == RunInit

\* while !self.should_quit { ... } Ok(())
RunWhile ==
    /\ runPc = "while"
    /\ IF editor.should_quit
       THEN runPc' = "returned" /\ runResult' = "Ok"
       ELSE runPc' = "read_event" /\ UNCHANGED runResult
    /\ UNCHANGED <<editor, reads, passed, runDraws, lastDraw, quitAt>>

\* read_event returns Ok(Event::Input(key)): the mode handles the key and
\* handle_command handles the command it answers, if any.
RunInput(cmd, parsed) ==
    LET after == IF cmd = None THEN editor ELSE HandleCommand(editor, cmd, parsed)
    IN  /\ runPc = "read_event"
        /\ reads < MaxReads
        /\ ~(cmd.name = "InsertChar" /\ editor.command_line.row.len > MaxRow)
        /\ reads' = reads + 1
        /\ passed' = passed + 1
        /\ editor' = after
        /\ quitAt' = IF QuitVia(editor, cmd, parsed) /= "" /\ ~quitAt.handled
                     THEN [handled |-> TRUE, via |-> QuitVia(editor, cmd, parsed),
                           reads |-> reads + 1, passed |-> passed + 1, draws |-> runDraws]
                     ELSE quitAt
        /\ runPc' = "draw"
        /\ UNCHANGED <<runResult, runDraws, lastDraw>>

\* read_event returns Ok(Event::Tick)
RunTick ==
    /\ runPc = "read_event"
    /\ reads < MaxReads
    /\ reads' = reads + 1
    /\ runPc' = "draw"
    /\ UNCHANGED <<editor, runResult, passed, runDraws, lastDraw, quitAt>>

\* read_event returns Err, or Ok(Event::Error(e)): run returns the error.
RunReadError ==
    /\ runPc = "read_event"
    /\ reads < MaxReads
    /\ reads' = reads + 1
    /\ runPc' = "returned"
    /\ runResult' = "ErrIo"
    /\ UNCHANGED <<editor, passed, runDraws, lastDraw, quitAt>>

\* A draw whose error is dropped: the loop goes on.
RunDrawErrorDropped(ok) ==
    /\ runPc = "draw"
    /\ runDraws' = runDraws + 1
    /\ lastDraw' = IF ok THEN "ok" ELSE "err"
    /\ runPc' = "while"
    /\ UNCHANGED <<editor, runResult, reads, passed, quitAt>>

\* self.viewport.draw(..).map_err(EditorError::Render)?
RunDraw(ok) ==
    /\ runPc = "draw"
    /\ runDraws' = runDraws + 1
    /\ lastDraw' = IF ok THEN "ok" ELSE "err"
    /\ IF ok
       THEN runPc' = "while" /\ UNCHANGED runResult
       ELSE runPc' = "returned" /\ runResult' = "ErrRender"
    /\ UNCHANGED <<editor, reads, passed, quitAt>>

RunNext ==
    \/ RunWhile
    \/ \E cmd \in HandledCommands, parsed \in ParsedCommands : RunInput(cmd, parsed)
    \/ RunTick
    \/ RunReadError
    \/ \E ok \in BOOLEAN : RunDraw(ok)

-----------------------------------------------------------------------------
(* main of vie_tui: the terminal is taken by CrosstermCanvas::new and given   *)
(* back by the Drop of CrosstermCanvas. An operation on the terminal that     *)
(* fails leaves the terminal as it was.                                       *)

TmInit ==
    /\ mainPc = "event_loop"
    /\ raw_mode = FALSE
    /\ alternate_screen = FALSE
    /\ mainResult = "none"
    /\ panicking = FALSE
    /\ exitStatus = "running"

\* The terminal before main has started, in the specifications that do not run it.
MainIdle == TmInit

\* CrosstermEventLoop::new(..): spawns the listener thread, always Ok.
EventLoopNew ==
    /\ mainPc = "event_loop"
    /\ mainPc' = "enable_raw_mode"
    /\ UNCHANGED <<raw_mode, alternate_screen, mainResult, panicking, exitStatus>>

\* crossterm::terminal::enable_raw_mode().map_err(..)?  in CrosstermCanvas::new
EnableRawMode(ok) ==
    /\ mainPc = "enable_raw_mode"
    /\ IF ok
       THEN raw_mode' = TRUE /\ mainPc' = "enter_alternate_screen"
                             /\ UNCHANGED mainResult
       ELSE mainResult' = "Err" /\ mainPc' = "if_let_err" /\ UNCHANGED raw_mode
    /\ UNCHANGED <<alternate_screen, panicking, exitStatus>>

\* crossterm::execute!(out, EnterAlternateScreen).map_err(..)?  in
\* CrosstermCanvas::new: on Err no CrosstermCanvas has been built, so none is
\* dropped.
EnterAlternateScreen(ok) ==
    /\ mainPc = "enter_alternate_screen"
    /\ IF ok
       THEN alternate_screen' = TRUE /\ mainPc' = "editor_new"
                                     /\ UNCHANGED mainResult
       ELSE mainResult' = "Err" /\ mainPc' = "if_let_err"
                                /\ UNCHANGED alternate_screen
    /\ UNCHANGED <<raw_mode, panicking, exitStatus>>

\* Editor::new(event_loop, &mut canvas): Viewport::new asks the canvas its size.
\* On Err the closure that owns the canvas returns, and the canvas is dropped.
MainEditorNew(ok) ==
    /\ mainPc = "editor_new"
    /\ IF ok
       THEN mainPc' = "run" /\ UNCHANGED mainResult
       ELSE mainResult' = "Err" /\ mainPc' = "leave_alternate_screen"
    /\ UNCHANGED <<raw_mode, alternate_screen, panicking, exitStatus>>

\* editor.run() has returned: its closure ends and the editor, with its
\* Viewport, is dropped.
MainRunReturned ==
    /\ mainPc = "run"
    /\ runPc = "returned"
    /\ mainResult' = IF runResult = "Ok" THEN "Ok" ELSE "Err"
    /\ mainPc' = "viewport_drop"
    /\ UNCHANGED <<raw_mode, alternate_screen, panicking, exitStatus>>

\* Drop for Viewport: canvas.clear().unwrap(); canvas.flush().unwrap();
\* a panic unwinds through the closure that owns the canvas, which drops it.
ViewportDrop(clearOk, flushOk) ==
    /\ mainPc = "viewport_drop"
    /\ panicking' = ~(clearOk /\ flushOk)
    /\ mainPc' = "leave_alternate_screen"
    /\ UNCHANGED <<raw_mode, alternate_screen, mainResult, exitStatus>>

\* Drop for CrosstermCanvas, first statement:
\* execute!(self.out, LeaveAlternateScreen).expect(..); a panic here skips the
\* rest of drop, and aborts the process when one is already unwinding.
LeaveAlternateScreen(ok) ==
    /\ mainPc = "leave_alternate_screen"
    /\ IF ok
       THEN /\ alternate_screen' = FALSE
            /\ mainPc' = "disable_raw_mode"
            /\ UNCHANGED <<panicking, exitStatus>>
       ELSE /\ panicking' = TRUE
            /\ mainPc' = "exited"
            /\ exitStatus' = IF panicking THEN "abort" ELSE "101"
            /\ UNCHANGED alternate_screen
    /\ UNCHANGED <<raw_mode, mainResult>>

\* Drop for CrosstermCanvas, second statement:
\* crossterm::terminal::disable_raw_mode().expect(..)
DisableRawMode(ok) ==
    /\ mainPc = "disable_raw_mode"
    /\ IF ok
       THEN /\ raw_mode' = FALSE
            /\ IF panicking
               THEN mainPc' = "exited" /\ exitStatus' = "101"
               ELSE mainPc' = "if_let_err" /\ UNCHANGED exitStatus
            /\ UNCHANGED panicking
       ELSE /\ panicking' = TRUE
            /\ mainPc' = "exited"
            /\ exitStatus' = IF panicking THEN "abort" ELSE "101"
            /\ UNCHANGED raw_mode
    /\ UNCHANGED <<alternate_screen, mainResult>>

\* if let Err(e) = .. { eprintln!(..); process::exit(1); }  and the end of main
MainExit ==
    /\ mainPc = "if_let_err"
    /\ mainPc' = "exited"
    /\ exitStatus' = IF mainResult = "Err" THEN "1" ELSE "0"
    /\ UNCHANGED <<raw_mode, alternate_screen, mainResult, panicking>>

\* The steps of main itself.
TmNext ==
    \/ EventLoopNew
    \/ \E ok \in BOOLEAN : EnableRawMode(ok)
    \/ \E ok \in BOOLEAN : EnterAlternateScreen(ok)
    \/ \E ok \in BOOLEAN : MainEditorNew(ok)
    \/ MainRunReturned
    \/ \E clearOk \in BOOLEAN, flushOk \in BOOLEAN : ViewportDrop(clearOk, flushOk)
    \/ \E ok \in BOOLEAN : LeaveAlternateScreen(ok)
    \/ \E ok \in BOOLEAN : DisableRawMode(ok)
    \/ MainExit

\* main: its own steps, and those of Editor::run while main is inside it.
MainNext ==
    \/ TmNext /\ UNCHANGED runVars
    \/ mainPc = "run" /\ RunNext /\ UNCHANGED tmVars

\* C27: when the process has exited, the alternate screen has been left and
\* raw mode has been disabled.
C27_TerminalReleased ==
    mainPc = "exited" => ~raw_mode /\ ~alternate_screen

-----------------------------------------------------------------------------
(* Specifications.                                                         *)

\* Viewport::draw called again and again on one Viewport.
Init == VpInit /\ BufIdle /\ PsIdle /\ GrIdle /\ WrIdle /\ CurIdle /\ EvIdle /\ RunIdle /\ MainIdle /\ DpIdle /\ RnIdle

Next == VpNext /\ UNCHANGED <<bufVars, psVars, grVars, wrVars, curVars, evVars, runVars, tmVars, dpVars, rnVars>>

Spec == Init /\ [][Next]_vars

\* Two frame buffers written, reset and diffed.
InitBuffer == BufInit /\ VpInit /\ PsIdle /\ GrIdle /\ WrIdle /\ CurIdle /\ EvIdle /\ RunIdle /\ MainIdle /\ DpIdle /\ RnIdle

NextBuffer == BufNext /\ UNCHANGED <<vpVars, psVars, grVars, wrVars, curVars, evVars, runVars, tmVars, dpVars, rnVars>>

SpecBuffer == InitBuffer /\ [][NextBuffer]_vars

\* Keys fed to the mode engine one at a time.
InitParsers == PsInit /\ VpInit /\ BufIdle /\ GrIdle /\ WrIdle /\ CurIdle /\ EvIdle /\ RunIdle /\ MainIdle /\ DpIdle /\ RnIdle

NextParsers == PsNext /\ UNCHANGED <<bufVars, vpVars, grVars, wrVars, curVars, evVars, runVars, tmVars, dpVars, rnVars>>

SpecParsers == InitParsers /\ [][NextParsers]_vars

\* execute_mode::command_for_input applied to every text of the alphabet.
InitGrammar == GrInit /\ VpInit /\ BufIdle /\ PsIdle /\ WrIdle /\ CurIdle /\ EvIdle /\ RunIdle /\ MainIdle /\ DpIdle /\ RnIdle

NextGrammar == GrNext /\ UNCHANGED <<bufVars, vpVars, psVars, wrVars, curVars, evVars, runVars, tmVars, dpVars, rnVars>>

SpecGrammar == InitGrammar /\ [][NextGrammar]_vars

\* Keys fed to the mode engine with no history kept.
InitModes == PsInitNoHistory /\ VpInit /\ BufIdle /\ GrIdle /\ WrIdle /\ CurIdle /\ EvIdle /\ RunIdle /\ MainIdle /\ DpIdle /\ RnIdle

NextModes == ModesNext /\ UNCHANGED <<bufVars, vpVars, grVars, wrVars, curVars, evVars, runVars, tmVars, dpVars, rnVars>>

SpecModes == InitModes /\ [][NextModes]_vars

\* normal_mode::command_for_input applied to every text of the alphabet.
InitNormal == NmInit /\ VpInit /\ BufIdle /\ PsIdle /\ WrIdle /\ CurIdle /\ EvIdle /\ RunIdle /\ MainIdle /\ DpIdle /\ RnIdle

NextNormal == NmNext /\ UNCHANGED <<bufVars, vpVars, psVars, wrVars, curVars, evVars, runVars, tmVars, dpVars, rnVars>>

SpecNormal == InitNormal /\ [][NextNormal]_vars

\* normal_mode::command_for_input applied to counted motions.
InitCount == CtInit /\ VpInit /\ BufIdle /\ PsIdle /\ WrIdle /\ CurIdle /\ EvIdle /\ RunIdle /\ MainIdle /\ DpIdle /\ RnIdle

SpecCount == InitCount /\ [][NextNormal]_vars

\* Viewport::draw with callbacks that place the cursor.
InitCursor == VpInit /\ CurInit /\ BufIdle /\ PsIdle /\ GrIdle /\ WrIdle /\ EvIdle /\ RunIdle /\ MainIdle /\ DpIdle /\ RnIdle

NextCursor == CurNext /\ UNCHANGED <<bufVars, psVars, grVars, wrVars, evVars, runVars, tmVars, dpVars, rnVars>>

SpecCursor == InitCursor /\ [][NextCursor]_vars

\* The polling thread of either event module, the channel and read_event.
InitEvents == EvInit /\ VpInit /\ BufIdle /\ PsIdle /\ GrIdle /\ WrIdle /\ CurIdle /\ RunIdle /\ MainIdle /\ DpIdle /\ RnIdle

NextEvents == EvNext /\ UNCHANGED <<bufVars, vpVars, psVars, grVars, wrVars, curVars, runVars, tmVars, dpVars, rnVars>>

SpecEvents == InitEvents /\ [][NextEvents]_vars

\* The polling thread of CrosstermEventLoop, the channel and read_event.
InitEventLoop == ElInit /\ VpInit /\ BufIdle /\ PsIdle /\ GrIdle /\ WrIdle /\ CurIdle /\ RunIdle /\ MainIdle /\ DpIdle /\ RnIdle

SpecEventLoop == InitEventLoop /\ [][NextEvents]_vars

\* Editor::run with an event loop, a mode engine and a viewport that answer freely.
InitRun ==
    RunInit /\ VpInit /\ BufIdle /\ PsIdle /\ GrIdle /\ WrIdle /\ CurIdle /\ EvIdle /\ MainIdle /\ DpIdle /\ RnIdle

NextRun ==
    RunNext /\ UNCHANGED <<bufVars, vpVars, psVars, grVars, wrVars, curVars, evVars, tmVars, dpVars, rnVars>>

SpecRun == InitRun /\ [][NextRun]_vars

\* One Viewport from Viewport::new to its drop, the callbacks writing nothing.
InitCanvas ==
    VpInit /\ DpInit /\ BufIdle /\ PsIdle /\ GrIdle /\ WrIdle /\ CurIdle /\ EvIdle /\ RunIdle /\ MainIdle /\ RnIdle

NextCanvas ==
    DpNext /\ UNCHANGED <<bufVars, psVars, grVars, wrVars, curVars, evVars, runVars, tmVars, rnVars>>

SpecCanvas == InitCanvas /\ [][NextCanvas]_vars

\* Viewport::draw called again and again, the cells of each callback recorded.
InitRender ==
    VpInit /\ RnInit /\ BufIdle /\ PsIdle /\ GrIdle /\ WrIdle /\ CurIdle /\ EvIdle /\ RunIdle /\ MainIdle /\ DpIdle

NextRender ==
    RnNext /\ UNCHANGED <<bufVars, psVars, grVars, wrVars, curVars, evVars, runVars, tmVars, dpVars>>

SpecRender == InitRender /\ [][NextRender]_vars

\* main of vie_tui from start to process exit.
InitMain ==
    TmInit /\ RunInit /\ VpInit /\ BufIdle /\ PsIdle /\ GrIdle /\ WrIdle /\ CurIdle /\ EvIdle /\ DpIdle /\ RnIdle

NextMain ==
    MainNext /\ UNCHANGED <<bufVars, vpVars, psVars, grVars, wrVars, curVars, evVars, dpVars, rnVars>>

SpecMain == InitMain /\ [][NextMain]_vars

\* One frame buffer written and reset.
InitWrite == WrInit /\ VpInit /\ BufIdle /\ PsIdle /\ GrIdle /\ CurIdle /\ EvIdle /\ RunIdle /\ MainIdle /\ DpIdle /\ RnIdle

NextWrite == WrNext /\ UNCHANGED <<bufVars, vpVars, psVars, grVars, curVars, evVars, runVars, tmVars, dpVars, rnVars>>

SpecWrite == InitWrite /\ [][NextWrite]_vars

\* One frame buffer over a Rect placed anywhere, written and reset.
InitWriteAt == WaInit /\ VpInit /\ BufIdle /\ PsIdle /\ GrIdle /\ CurIdle /\ EvIdle /\ RunIdle /\ MainIdle /\ DpIdle /\ RnIdle

SpecWriteAt == InitWriteAt /\ [][NextWrite]_vars

-----------------------------------------------------------------------------
(* Properties of the frame buffer and of the draw cycle.                   *)

\* The cells of next that differ from the cell of prev at the same index in
\* symbol, position or style, and the sequence of them in ascending index order.
ChangedIndices(prev, next) ==
    {i \in 1..Len(next.cells) :
        \/ prev.cells[i].symbol /= next.cells[i].symbol
        \/ prev.cells[i].position /= next.cells[i].position
        \/ prev.cells[i].style /= next.cells[i].style}

NthOf(S, k) == CHOOSE i \in S : Cardinality({j \in S : j < i}) = k - 1

ChangedCells(prev, next) ==
    [k \in 1..Cardinality(ChangedIndices(prev, next)) |->
        next.cells[NthOf(ChangedIndices(prev, next), k)]]

\* C1: front.diff(back) is exactly the cells of back that differ from front in
\* symbol, position or style, each once, in ascending (row-major) index order.
C1_DiffIsTheChangedCellsInOrder ==
    diffed => updates = ChangedCells(front, back)

\* C1 witness: a diff of some but not all cells, one of them changed in style only.
C1_Witness ==
    /\ diffed
    /\ Len(updates) >= 2
    /\ Len(updates) < Len(back.cells)
    /\ \E i \in 1..Len(back.cells) :
          /\ front.cells[i].symbol = back.cells[i].symbol
          /\ front.cells[i].style /= back.cells[i].style

DrawReturnedOk == pc = 0 /\ result = "ok"

DrawReturnedErr == pc = 0 /\ result = "err"

CellIndex(cell) == cell.position.row * Area.width + cell.position.col + 1

\* C2: while every draw has succeeded, the cells a draw hands to Canvas.draw are
\* exactly the cells at which the buffer its callback rendered differs from the
\* buffer the previous callback rendered (all blank before the first draw), and
\* no cell with the same symbol and style in both frames is among them.
C2_OnlyChangesAreDrawn ==
    (DrawReturnedOk /\ allOk) =>
        /\ sent = ChangedCells(lastFrame, thisFrame)
        /\ \A k \in 1..Len(sent) :
              \/ lastFrame.cells[CellIndex(sent[k])].symbol /= sent[k].symbol
              \/ lastFrame.cells[CellIndex(sent[k])].style /= sent[k].style

\* C2 witness: a second or later draw that transmits some cells and leaves out
\* a written cell that did not change.
C2_Witness ==
    /\ DrawReturnedOk
    /\ allOk
    /\ draws >= 2
    /\ Len(sent) >= 1
    /\ \E i \in 1..Len(thisFrame.cells) :
          /\ thisFrame.cells[i].symbol /= " "
          /\ thisFrame.cells[i] = lastFrame.cells[i]

\* C3: a successful draw performs hide_cursor, the callback, Canvas.draw,
\* position_cursor, show_cursor, the buffer swap and flush, in this order, each once.
C3_DrawOrder ==
    DrawReturnedOk =>
        steps = <<"hide_cursor", "callback", "draw", "position_cursor", "show_cursor",
                  "swap_buffers", "flush">>

\* C3 witness: a second draw that transmitted cells has returned Ok.
C3_Witness ==
    /\ DrawReturnedOk
    /\ draws >= 2
    /\ Len(sent) >= 1

PreviousAtStart == buffers[(1 - startIdx) + 1]

\* C4 as stated: whichever Canvas operation fails, current_buffer_idx is what it
\* was before the call, and the previous buffer has not been reset.
C4_Original ==
    (DrawReturnedErr /\ failedOp \in {"hide_cursor", "draw", "position_cursor",
                                      "show_cursor", "flush"}) =>
        /\ current_buffer_idx = startIdx
        /\ PreviousAtStart = startPrev

\* C4 amended: when hide_cursor, Canvas.draw, position_cursor or show_cursor fails,
\* current_buffer_idx is what it was before the call and the previous buffer is
\* untouched; when flush fails the swap has already happened: the index has
\* flipped and the buffer that was the previous one has been reset.
C4_FailedDrawAndSwap ==
    /\ (DrawReturnedErr /\ failedOp \in {"hide_cursor", "draw", "position_cursor",
                                         "show_cursor"}) =>
            /\ current_buffer_idx = startIdx
            /\ PreviousAtStart = startPrev
    /\ (DrawReturnedErr /\ failedOp = "flush") =>
            /\ current_buffer_idx = 1 - startIdx
            /\ PreviousAtStart = BufferReset(startPrev)

\* C4 witness: show_cursor failed in a draw whose previous buffer held text.
C4_Witness ==
    /\ DrawReturnedErr
    /\ failedOp = "show_cursor"
    /\ \E i \in 1..Len(startPrev.cells) : startPrev.cells[i].symbol /= " "

\* C5: after every successful draw, whatever failed before it, the buffer kept
\* as previous equals the screen cell for cell in symbol and style.
C5_PreviousBufferIsTheScreen ==
    DrawReturnedOk =>
        \A i \in 1..RectArea(Area) :
            /\ screen[i].symbol = buffers[(1 - current_buffer_idx) + 1].cells[i].symbol
            /\ screen[i].style = buffers[(1 - current_buffer_idx) + 1].cells[i].style

\* C6: when the render callback is invoked, every cell of the buffer it gets
\* has the symbol " ".
C6_CallbackGetsBlankBuffer ==
    (AtStep("callback") /\ writes = 0) =>
        \A i \in 1..RectArea(Area) : buffers[current_buffer_idx + 1].cells[i].symbol = " "

\* C23: a successful draw gave Canvas.position_cursor, once, the last position
\* its own callback gave set_cursor_position, or row 0, col 0 when the callback
\* gave none, whatever the draws before it set.
C23_CursorOfThisDraw ==
    DrawReturnedOk =>
        positioned = <<IF setCalls = <<>> THEN Position(0, 0) ELSE setCalls[Len(setCalls)]>>

\* C23 witness: a successful draw whose callback set no position has placed the
\* cursor at row 0, col 0 after a draw that placed it elsewhere.
C23_Witness ==
    /\ DrawReturnedOk
    /\ setCalls = <<>>
    /\ positioned = <<Position(0, 0)>>
    /\ lastPositioned = <<Position(Width - 1, Height - 1)>>

-----------------------------------------------------------------------------
(* Properties of the input-polling thread and its channel.                 *)

\* C24: the polling thread, of either event module, sends Tick only for a poll
\* that timed out, never for an event that was ready.
C24_TickOnlyOnTimeout == tickCauses \subseteq {"timeout"}

IsInput(e) == e.event = "Input"

IsKeyEvent(e) == e.type = "Key"

\* The keys of the Input events of a sequence of Events, in order.
InputKeys(events) ==
    [i \in 1..Len(SelectSeq(events, IsInput)) |-> SelectSeq(events, IsInput)[i].key]

\* The keys of the key events of a sequence of platform events, in order.
PlatformKeys(events) ==
    [i \in 1..Len(SelectSeq(events, IsKeyEvent)) |-> KeyFrom(SelectSeq(events, IsKeyEvent)[i])]

\* C25: in every interleaving the keys read_event has returned are the first
\* keys the platform produced, in order, and while the receiver lives every
\* key produced is, once, either returned, in the channel or not yet read.
C25_KeysInOrder ==
    /\ Len(InputKeys(delivered)) <= Len(PlatformKeys(produced))
    /\ InputKeys(delivered) = SubSeq(PlatformKeys(produced), 1, Len(InputKeys(delivered)))
    /\ rxAlive =>
          InputKeys(delivered) \o InputKeys(channel) \o PlatformKeys(pending)
            = PlatformKeys(produced)

\* C25 witness: two different keys and a Tick have been returned while a third
\* key waited in the channel.
C25_Witness ==
    /\ InputKeys(delivered) = <<KeyChar("a"), Key("Unknown")>>
    /\ \E i \in 1..Len(delivered) : delivered[i] = EventTick
    /\ InputKeys(channel) = <<KeyChar("a")>>

-----------------------------------------------------------------------------
(* Properties of Editor::run.                                              *)

\* C26 as stated: once Quit is handled no further event is read, no further
\* key is passed to the mode engine, and run returns success.
C26_Original ==
    quitAt.handled =>
        /\ reads = quitAt.reads
        /\ passed = quitAt.passed
        /\ runPc = "returned" => runResult = "Ok"

\* C26 amended: once Quit is handled no further event is read and no further
\* key is passed to the mode engine; run calls Viewport::draw once more and
\* returns success when that draw succeeds, the render error when it fails.
C26_QuitStopsTheLoop ==
    quitAt.handled =>
        /\ reads = quitAt.reads
        /\ passed = quitAt.passed
        /\ runDraws <= quitAt.draws + 1
        /\ runPc = "returned" =>
              /\ runDraws = quitAt.draws + 1
              /\ runResult = IF lastDraw = "ok" THEN "Ok" ELSE "ErrRender"

\* C26 witness: run has returned success after a Quit that came out of the
\* command line, with reads to spare.
C26_Witness ==
    /\ quitAt.handled
    /\ runPc = "returned"
    /\ runResult = "Ok"
    /\ quitAt.via = "command_line"
    /\ reads = 2
    /\ editor.mode = "Normal"
    /\ editor.command_line = CommandLineReset

-----------------------------------------------------------------------------
(* Properties of the mode engine.  keys, while tracking, is the whole key  *)
(* sequence fed to the engine since it was a fresh NormalParser.           *)

IsDigitKey(key) == key.kind = "Char" /\ key.ch \in Digits

IsMotionKey(key) == key.kind = "Char" /\ key.ch \in {"h", "j", "k", "l"}

\* A count prefix: one digit 1-9 followed by any digits.
IsCountPrefix(ks) ==
    /\ Len(ks) >= 1
    /\ \A i \in 1..Len(ks) : IsDigitKey(ks[i])
    /\ ks[1].ch \in NonZeroDigits

RECURSIVE Pow10(_)
Pow10(n) == IF n = 0 THEN 1 ELSE 10 * Pow10(n - 1)

RECURSIVE CountOf(_, _)
CountOf(ks, i) ==
    IF i > Len(ks) THEN 0
    ELSE DigitValue(ks[i].ch) * Pow10(Len(ks) - i) + CountOf(ks, i + 1)

MotionCommand(ch, n) ==
    [Cmd(CASE ch = "h" -> "MoveCursorLeft" [] ch = "j" -> "MoveCursorDown"
           [] ch = "k" -> "MoveCursorUp" [] ch = "l" -> "MoveCursorRight")
     EXCEPT !.count = n]

\* C7: from a fresh Normal state the digit keys of a count prefix N emit no
\* command, the motion key after them emits the movement with count N, and a
\* motion key with no prefix emits the movement with count 1.
C7_CountPrefixThenMotion ==
    (tracking /\ keys /= <<>>) =>
        LET n == Len(keys)
            before == SubSeq(keys, 1, n - 1)
        IN  /\ IsCountPrefix(keys) => command = None
            /\ (IsMotionKey(keys[n]) /\ IsCountPrefix(before)) =>
                    command = MotionCommand(keys[n].ch, CountOf(before, 1))
            /\ (n = 1 /\ IsMotionKey(keys[n])) => command = MotionCommand(keys[n].ch, 1)

\* C8: from Normal mode ':' 'q' Enter emits Quit, ':' 'w' Enter emits Save and
\* ':' 'w' ' ' name Enter emits SaveAs(name) for a non-empty name.
C8_ColonCommands ==
    tracking =>
        /\ keys = <<KeyChar(":"), KeyChar("q"), Key("Enter")>> => command = Cmd("Quit")
        /\ keys = <<KeyChar(":"), KeyChar("w"), Key("Enter")>> => command = Cmd("Save")
        /\ ( /\ Len(keys) >= 5
             /\ SubSeq(keys, 1, 3) = <<KeyChar(":"), KeyChar("w"), KeyChar(" ")>>
             /\ keys[Len(keys)] = Key("Enter")
             /\ \A i \in 4..(Len(keys) - 1) : keys[i].kind = "Char" ) =>
                command = SaveAs([i \in 1..(Len(keys) - 4) |-> keys[i + 3].ch])

\* C9: Enter in Execute mode leaves the engine in Normal mode, whether or not
\* the text matched the grammar.
C9_EnterReturnsToNormal ==
    (lastMode = "Execute" /\ lastKey = Key("Enter")) => parsers.mode = "Normal"

\* C10: Esc in Execute mode leaves the engine in Normal mode, and every entry
\* into Execute mode starts from an empty command.
C10_EscAborts ==
    /\ (lastMode = "Execute" /\ lastKey = Key("Esc")) => parsers.mode = "Normal"
    /\ (lastMode = "Normal" /\ parsers.mode = "Execute") => parsers.row.string = <<>>

\* C12: Enter in Execute mode on a text the grammar does not match emits a
\* "not recognised" command that carries the text, which differs from the
\* no-command result of an ignored key.
C12_NotRecognisedIsReported ==
    (lastMode = "Execute" /\ lastKey = Key("Enter")
        /\ ExecuteCommandForInput(lastRow) = None) =>
            /\ command /= None
            /\ command.name = "CommandLineInputNotRecognised"
            /\ command.text = lastRow

FreshParser(mode) ==
    CASE mode = "Execute" -> Parser("Execute", <<>>, RowDefault, PositionDefault)
      [] mode = "Insert" -> Parser("Insert", <<>>, RowDefault, PositionDefault)
      [] mode = "Normal" -> Parser("Normal", <<>>, RowDefault, PositionDefault)

\* C18: the engine starts in Normal mode; whenever parse returns EnterMode(m)
\* the engine is afterwards in mode m with fresh state; ':' in Normal returns
\* EnterMode(Execute) and 'i' or the Insert key returns EnterMode(Insert).
C18_EnterModeSwitchesMode ==
    /\ lastKey = Key("Unknown") /\ lastMode = "Normal" => parsers = FreshParser("Normal")
    /\ command.name = "EnterMode" => parsers = FreshParser(command.mode)
    /\ (lastMode = "Normal" /\ lastKey = KeyChar(":")) =>
            command = EnterMode("Execute") /\ parsers.mode = "Execute"
    /\ (lastMode = "Normal" /\ lastKey \in {KeyChar("i"), Key("Insert")}) =>
            command = EnterMode("Insert") /\ parsers.mode = "Insert"

\* C18 witness: Execute mode holding text has returned EnterMode(Normal).
C18_Witness ==
    /\ lastMode = "Execute"
    /\ lastRow /= <<>>
    /\ command = EnterMode("Normal")
    /\ parsers.mode = "Normal"

\* C19: Esc in Insert mode returns EnterMode(Normal) and leaves a Normal engine
\* with an empty input buffer: parsing 'j' next yields MoveCursorDown(1).
C19_EscLeavesInsert ==
    /\ (lastMode = "Insert" /\ lastKey = Key("Esc")) =>
            /\ command = EnterMode("Normal")
            /\ parsers.mode = "Normal"
            /\ parsers.input_buffer = <<>>
            /\ ParsersParse(parsers, KeyChar("j")).command = MoveCursor("MoveCursorDown", 1)

\* C19 witness: Esc has been pressed in Insert mode.
C19_Witness ==
    /\ lastMode = "Insert"
    /\ lastKey = Key("Esc")
    /\ command = EnterMode("Normal")
    /\ parsers = FreshParser("Normal")

ArrowCommand(kind) ==
    MoveCursor(CASE kind = "Up" -> "MoveCursorUp" [] kind = "Down" -> "MoveCursorDown"
                 [] kind = "Left" -> "MoveCursorLeft" [] kind = "Right" -> "MoveCursorRight",
               1)

\* C20: in Insert mode Char(c) gives InsertChar(c), Enter InsertLineBreak,
\* Backspace DeleteCharBackward, Delete DeleteCharForward, the arrows
\* MoveCursorUp/Down/Left/Right(1), Home/End/PageUp/PageDown the line and page
\* movements, and after every key but Esc the engine is still in Insert mode.
C20_InsertModeKeys ==
    (lastMode = "Insert" /\ lastKey /= Key("Esc")) =>
        /\ parsers.mode = "Insert"
        /\ lastKey.kind = "Char" => command = InsertChar(lastKey.ch)
        /\ lastKey.kind = "Enter" => command = Cmd("InsertLineBreak")
        /\ lastKey.kind = "Backspace" => command = Cmd("DeleteCharBackward")
        /\ lastKey.kind = "Delete" => command = Cmd("DeleteCharForward")
        /\ lastKey.kind \in {"Up", "Down", "Left", "Right"} =>
                command = ArrowCommand(lastKey.kind)
        /\ lastKey.kind = "Home" => command = Cmd("MoveCursorLineStart")
        /\ lastKey.kind = "End" => command = Cmd("MoveCursorLineEnd")
        /\ lastKey.kind = "PageUp" => command = Cmd("MoveCursorPageUp")
        /\ lastKey.kind = "PageDown" => command = Cmd("MoveCursorPageDown")

\* C20 witness: Enter in Insert mode has produced InsertLineBreak.
C20_Witness ==
    /\ lastMode = "Insert"
    /\ lastKey = Key("Enter")
    /\ command = Cmd("InsertLineBreak")
    /\ parsers.mode = "Insert"

\* The keys the Normal rows of the transition table name.
NormalListedKey(key) ==
    \/ key.kind = "Char" /\ key.ch \in {":", "i", "h", "j", "k", "l"} \cup Digits
    \/ key.kind \in {"Insert", "Home", "End", "PageUp", "PageDown", "Esc"}

\* C21 as stated: in Normal mode every key the table does not name, Enter among
\* them, produces no command and leaves the engine in Normal mode.
C21_Original ==
    (lastMode = "Normal" /\ ~NormalListedKey(lastKey)) =>
        command = None /\ parsers.mode = "Normal"

\* C21 amended: in Normal mode Enter produces MoveCursorDown(1) and every other
\* key the table does not name produces no command; after either the engine is
\* still in Normal mode.
C21_UnlistedNormalKeys ==
    (lastMode = "Normal" /\ ~NormalListedKey(lastKey)) =>
        /\ parsers.mode = "Normal"
        /\ command = IF lastKey = Key("Enter") THEN MoveCursor("MoveCursorDown", 1) ELSE None

\* C21 witness: an arrow key has been ignored in Normal mode.
C21_Witness ==
    /\ lastMode = "Normal"
    /\ lastKey = Key("Down")
    /\ command = None
    /\ parsers = FreshParser("Normal")

\* text without its character at 0-based index at; text itself when it has none there.
Without(text, at) ==
    IF at >= 0 /\ at < Len(text)
    THEN SubSeq(text, 1, at) \o SubSeq(text, at + 2, Len(text))
    ELSE text

\* C28: in Execute mode Backspace removes the character before the cursor and
\* Delete the character at the cursor; the engine is in Normal mode afterwards
\* exactly when no command text is left, and otherwise still in Execute mode
\* holding the remaining text.
C28_DeleteOnCommandLine ==
    (lastMode = "Execute" /\ lastKey.kind \in {"Backspace", "Delete"}) =>
        LET remaining == Without(lastRow, IF lastKey.kind = "Backspace" THEN lastCol - 1
                                          ELSE lastCol)
        IN  /\ (parsers.mode = "Normal") <=> (remaining = <<>>)
            /\ parsers.mode = "Execute" => parsers.row.string = remaining

-----------------------------------------------------------------------------
(* Properties of the command-line grammar.                                 *)

\* C11: command_for_input(s) is Quit exactly when s is ":q", Save exactly when
\* s is ":w", SaveAs(n) exactly when s is ":w " followed by a non-empty n taken
\* verbatim, and no command for every other s.
C11_CommandLineGrammar ==
    applied =>
        /\ (outcome = Cmd("Quit")) <=> (cmdline = <<":", "q">>)
        /\ (outcome = Cmd("Save")) <=> (cmdline = <<":", "w">>)
        /\ \A n \in GrammarInputs :
              (outcome = SaveAs(n)) <=> (n /= <<>> /\ cmdline = <<":", "w", " ">> \o n)
        /\ outcome.name \in {"Quit", "Save", "SaveAs", "None"}
        /\ (outcome = None) <=>
              ~(\/ cmdline = <<":", "q">>
                \/ cmdline = <<":", "w">>
                \/ (Len(cmdline) >= 4 /\ SubSeq(cmdline, 1, 3) = <<":", "w", " ">>))

\* C11 witness: ":w " followed by a space is SaveAs of that space.
C11_Witness ==
    /\ applied
    /\ cmdline = <<":", "w", " ", " ">>
    /\ outcome = SaveAs(<<" ">>)

\* The decimal value of a run of digits.
RECURSIVE DecimalValue(_, _)
DecimalValue(run, i) ==
    IF i > Len(run) THEN 0
    ELSE DigitValue(run[i]) * Pow10(Len(run) - i) + DecimalValue(run, i + 1)

\* s is a run 1-9 then 0-9* followed by exactly one motion key.
IsCountedMotion(s) ==
    /\ Len(s) >= 2
    /\ s[Len(s)] \in MotionChars
    /\ s[1] \in NonZeroDigits
    /\ \A i \in 2..(Len(s) - 1) : s[i] \in Digits

\* C22: command_for_input(s) is the movement of the key with count N when s is a
\* run 1-9 then 0-9* of value N followed by one of h/j/k/l, the movement with
\* count 1 when s is one of h/j/k/l alone, EnterMode(Execute) for ":",
\* EnterMode(Insert) for "i", and no command for every other s, a run that
\* starts with 0 among them.
C22_NormalGrammar ==
    applied =>
        outcome =
            CASE IsCountedMotion(cmdline) ->
                    MotionCommand(cmdline[Len(cmdline)],
                                  DecimalValue(SubSeq(cmdline, 1, Len(cmdline) - 1), 1))
              [] Len(cmdline) = 1 /\ cmdline[1] \in MotionChars -> MotionCommand(cmdline[1], 1)
              [] cmdline = <<":">> -> EnterMode("Execute")
              [] cmdline = <<"i">> -> EnterMode("Insert")
              [] OTHER -> None

\* C22 witness: "0j" has been parsed and gave no command.
C22_Witness ==
    /\ applied
    /\ cmdline = <<"0", "j">>
    /\ outcome = None

\* C29: a run of digits whose value exceeds the largest usize, followed by a
\* motion key, yields no command.
C29_OverflowIsNoMatch ==
    (applied /\ IsCountedMotion(cmdline)
        /\ ~ParseUsize(SubSeq(cmdline, 1, Len(cmdline) - 1)).ok) =>
            outcome = None

\* C17: two buffers of one area filled with the same symbol have an empty diff,
\* the two empty buffers among them.
C17_EqualFillsHaveNoDiff ==
    (diffed /\ bufOps = 0
        /\ \E s \in Graphemes \cup {" "} :
              front = BufferFilled(Area, s) /\ back = BufferFilled(Area, s)) =>
        updates = NoCells

\* C17 witness: two buffers filled with "a" have been diffed.
C17_Witness ==
    /\ diffed
    /\ bufOps = 0
    /\ front = BufferFilled(Area, "a")
    /\ back = BufferFilled(Area, "a")
    /\ updates = NoCells

-----------------------------------------------------------------------------
(* Properties of write_line and reset on one buffer.                       *)

WroteLine == lastOp.name = "write_line"

\* The cell of buf at column col of row row.
CellAt(buf, col, row) == buf.cells[row * buf.area.width + col + 1]

OtherRowsUnchanged(row) ==
    \A r \in 0..(Height - 1) : \A c \in 0..(Width - 1) :
        r /= row => CellAt(buffer, c, r) = CellAt(beforeOp, c, r)

\* C13: write_line of a text with more clusters than the row is wide returns,
\* the row holds the first area.width clusters in the given style, and no cell
\* of another row has changed.
C13_LongTextIsTruncated ==
    (WroteLine /\ lastOp.line_number < Height /\ Len(lastOp.string) > Width) =>
        /\ ~wrPanic
        /\ \A c \in 0..(Width - 1) :
              /\ CellAt(buffer, c, lastOp.line_number).symbol = lastOp.string[c + 1]
              /\ CellAt(buffer, c, lastOp.line_number).style = lastOp.style
        /\ OtherRowsUnchanged(lastOp.line_number)

\* C14: after write_line of a text with k < area.width clusters, cells 0..k-1 of
\* the row hold the clusters in the given style and every cell from column k on
\* has the symbol " " and the default style, whatever it held before.
C14_ShortTextBlanksTheRest ==
    (WroteLine /\ lastOp.line_number < Height /\ Len(lastOp.string) < Width) =>
        /\ ~wrPanic
        /\ \A c \in 0..(Width - 1) :
              IF c < Len(lastOp.string)
              THEN /\ CellAt(buffer, c, lastOp.line_number).symbol = lastOp.string[c + 1]
                   /\ CellAt(buffer, c, lastOp.line_number).style = lastOp.style
              ELSE /\ CellAt(buffer, c, lastOp.line_number).symbol = " "
                   /\ CellAt(buffer, c, lastOp.line_number).style = StyleDefault

C16_ResetEqualsEmpty ==
    lastOp.name = "reset" => BufferDiff(BufferEmpty(Area), buffer) = NoCells

\* C31: reset sets the symbol of every cell to " " and leaves every cell's
\* style and position, the area and the number of cells as they were.
C31_ResetKeepsStyleAndPosition ==
    lastOp.name = "reset" =>
        /\ buffer.area = beforeOp.area
        /\ Len(buffer.cells) = Len(beforeOp.cells)
        /\ \A i \in 1..Len(buffer.cells) :
               /\ buffer.cells[i].symbol = " "
               /\ buffer.cells[i].style = beforeOp.cells[i].style
               /\ buffer.cells[i].position = beforeOp.cells[i].position

\* C31 witness: a reset of a buffer that held a styled, non-blank cell.
C31_Witness ==
    /\ lastOp.name = "reset"
    /\ \E i \in 1..Len(beforeOp.cells) :
           /\ beforeOp.cells[i].symbol /= " "
           /\ beforeOp.cells[i].style /= StyleDefault
           /\ buffer.cells[i].style = beforeOp.cells[i].style

\* Number of times swap_buffers has run in the draw under way or last made.
SwapsOfDraw == Cardinality({i \in 1..Len(steps) : steps[i] = "swap_buffers"})

\* C32: current_buffer_idx is 0 or 1, both buffers keep the viewport's area
\* and area.width * area.height cells, and the index has flipped once since
\* the start of a draw that reached the swap and not at all in one that has
\* not or that aborted before it.
C32_TwoBuffersOneIndex ==
    /\ current_buffer_idx \in {0, 1}
    /\ DOMAIN buffers = 1..2
    /\ \A b \in 1..2 :
          /\ buffers[b].area = Area
          /\ Len(buffers[b].cells) = Area.width * Area.height
    /\ SwapsOfDraw <= 1
    /\ draws > 0 =>
          current_buffer_idx = IF SwapsOfDraw = 1 THEN 1 - startIdx ELSE startIdx

\* C32 witness: a draw that succeeded and flipped the index, then one that
\* aborted before the swap and left the index alone.
C32_Witness ==
    /\ draws = 2
    /\ result = "err"
    /\ failedOp = "show_cursor"
    /\ SwapsOfDraw = 0
    /\ startIdx = 1
    /\ current_buffer_idx = 1

RECURSIVE SelectEvents(_)
SelectEvents(seq) ==
    IF seq = <<>> THEN <<>>
    ELSE IF Head(seq) = RecvErr THEN SelectEvents(Tail(seq))
    ELSE <<Head(seq)>> \o SelectEvents(Tail(seq))

\* The events pushed onto the channel so far, oldest first: those read_event
\* has returned and those still queued.
Pushed == SelectEvents(delivered) \o channel

\* C33: an Error event is the last event pushed and the thread has stopped
\* once it is pushed; a thread that stopped on an error that the receiver
\* was there to take has pushed it.
C33_ErrorIsLast ==
    /\ \A i \in 1..Len(Pushed) :
          Pushed[i] = EventError => i = Len(Pushed) /\ thread = "done"
    /\ (thread = "done" /\ rxAlive) =>
          Len(Pushed) > 0 /\ Pushed[Len(Pushed)] = EventError

\* C33 witness: a key, then a read error: Input and Error were received, in
\* that order, and the thread has stopped with an event still unread.
C33_Witness ==
    /\ thread = "done"
    /\ rxAlive
    /\ pending /= <<>>
    /\ Len(produced) = 3
    /\ delivered = <<EventInput(KeyChar("a")), EventError>>
    /\ channel = <<>>

\* C34: once a draw has failed, run has returned Err(EditorError::Render)
\* with no read and no draw after it; once read_event has failed or yielded
\* Event::Error, run has returned the error with no draw for that read and
\* none after it.
C34_ErrorsEndTheRun ==
    /\ lastDraw = "err" =>
          runPc = "returned" /\ runResult = "ErrRender" /\ runDraws = reads
    /\ runResult = "ErrIo" =>
          runPc = "returned" /\ runDraws = reads - 1 /\ lastDraw /= "err"
    /\ runPc /= "returned" => runResult = "none"

\* C34 witness: the second draw of a run failed after a key was handled.
C34_Witness ==
    /\ lastDraw = "err"
    /\ runResult = "ErrRender"
    /\ reads = 2
    /\ runDraws = 2
    /\ passed >= 1
    /\ ~editor.should_quit

\* The Canvas operations called since drop began.
SinceDrop == SubSeq(captured, dropAt + 1, Len(captured))

\* C35 as stated: a drop that has ended has called clear and then flush.
C35_Original ==
    dropPc \in {"dropped", "panicked"} => SinceDrop = <<"clear", "flush">>

\* C35 amended: a drop calls Canvas.clear and then, when clear returned Ok,
\* Canvas.flush, after every Canvas operation of the draws before it and
\* with no other Canvas operation; when clear fails the drop panics and
\* flush is not called.
C35_DropClearsThenFlushes ==
    /\ dropPc = "alive" => dropAt = 0
    /\ dropPc = "flush" => SinceDrop = <<"clear">>
    /\ dropPc = "dropped" => SinceDrop = <<"clear", "flush">>
    /\ dropPc = "panicked" => SinceDrop \in {<<"clear">>, <<"clear", "flush">>}
    /\ dropPc /= "alive" =>
          /\ pc = 0
          /\ \A i \in 1..dropAt : captured[i] /= "clear"

\* C35 witness: a Viewport dropped after a draw that succeeded and one that
\* failed at show_cursor.
C35_Witness ==
    /\ dropPc = "dropped"
    /\ draws = 2
    /\ captured = <<"hide_cursor", "draw", "position_cursor", "show_cursor", "flush",
                    "hide_cursor", "draw", "position_cursor", "show_cursor",
                    "clear", "flush">>

\* A draw has returned an error after its hide_cursor succeeded.
AbortedAfterHide ==
    /\ dropPc = "alive"
    /\ pc = 0
    /\ result = "err"
    /\ failedOp /= "hide_cursor"

\* The Canvas operation called last.
LastCalled == captured[Len(captured)]

\* The last Canvas operation of a draw that failed at failedOp: the callback
\* is no Canvas operation, hide_cursor is the one before it.
LastOfAborted == IF failedOp = "callback" THEN "hide_cursor" ELSE failedOp

\* C39 as stated: a draw that aborted after hide_cursor succeeded called no
\* Canvas operation after the failure, no show_cursor and no flush went
\* through, and the cursor is hidden.
C39_Original ==
    AbortedAfterHide =>
        /\ LastCalled = LastOfAborted
        /\ failedOp /= "show_cursor" => \A i \in 1..Len(steps) : steps[i] /= "show_cursor"
        /\ failedOp /= "flush" => \A i \in 1..Len(steps) : steps[i] /= "flush"
        /\ cursorHidden

\* C39 amended: a draw that aborted after hide_cursor succeeded called no
\* Canvas operation after the failure; when the callback, Canvas.draw,
\* position_cursor or show_cursor failed, no show_cursor succeeded and flush
\* was not called, and the cursor is hidden, as it is in a later draw until
\* show_cursor is reached; when flush failed, show_cursor had succeeded and
\* the cursor is shown.
C39_AbortLeavesCursor ==
    /\ AbortedAfterHide =>
          /\ LastCalled = LastOfAborted
          /\ failedOp /= "flush" =>
                /\ cursorHidden
                /\ \A i \in 1..Len(steps) : steps[i] /= "flush"
                /\ failedOp /= "show_cursor" =>
                      \A i \in 1..Len(steps) : steps[i] /= "show_cursor"
          /\ failedOp = "flush" => ~cursorHidden
    /\ (pc > 1 /\ \A i \in 1..Len(steps) : steps[i] /= "show_cursor") => cursorHidden

\* C39 witness: after a draw that succeeded, a draw aborted at
\* position_cursor with the cursor hidden.
C39_Witness ==
    /\ AbortedAfterHide
    /\ failedOp = "position_cursor"
    /\ draws = 2
    /\ cursorHidden
    /\ captured = <<"hide_cursor", "draw", "position_cursor", "show_cursor", "flush",
                    "hide_cursor", "draw", "position_cursor">>

\* C36: after a draw that returned Ok, no draw having failed before it, every
\* cell its callback did not write is " " in the default style in the
\* rendered buffer and on the screen.
C36_UnwrittenCellsAreBlank ==
    (pc = 0 /\ result = "ok" /\ allOk) =>
        \A i \in 1..Len(thisFrame.cells) :
            i \notin written =>
                /\ thisFrame.cells[i].symbol = " "
                /\ thisFrame.cells[i].style = StyleDefault
                /\ screen[i] = [symbol |-> " ", style |-> StyleDefault]

\* C37: while the editor is in Execute mode the text of the command line
\* begins with the prompt ":" and the cursor column is between 1 and the
\* length of the text.
C37_PromptAndCursor ==
    editor.mode = "Execute" =>
        /\ editor.command_line.row.len >= 1
        /\ Head(editor.command_line.row.string) = ":"
        /\ editor.command_line.cursor_position.col \in 1..editor.command_line.row.len

\* C38: each time the editor goes from another mode into Execute mode, its
\* command line is exactly ":" with the cursor at column 1.
C38_ExecuteStartsAtPrompt ==
    [][(editor.mode /= "Execute" /\ editor'.mode = "Execute") =>
            editor'.command_line = CommandLineReset]_vars

====
